---------------------------- MODULE Spec2Model ----------------------------
(***************************************************************************)
(* Exercise interaction engine and progress store of the course reader.    *)
(*                                                                         *)
(* Strings that the code takes apart (paths, hashed content) are sequences *)
(* of character codes.  Every React component is one record-valued         *)
(* variable whose fields are the component's useState/useRef cells; an     *)
(* action is one event handler together with the effects that the          *)
(* following commit runs.                                                  *)
(***************************************************************************)
EXTENDS Integers, Sequences, FiniteSets

VARIABLES
    localStorage,   \* the item stored under STORAGE_KEY
    clock,          \* Date.now()
    ret,            \* the last call into the progress store and what it returned
    fb,             \* FillBlanks (drag mode) component state
    ord,            \* Ordering component state
    media,          \* InteractiveMedia component state and the media element
    ex              \* the state of another mounted exercise, or the inputs and result of a function

vars == <<localStorage, clock, ret, fb, ord, media, ex>>

(***************************************************************************)
(* Bounds                                                                  *)
(***************************************************************************)
NumIds == 2            \* exercise ids used against the store
NumLessons == 2        \* lesson paths
MaxTotal == 2          \* largest exercise count in a small manifest
MaxClock == 1          \* largest reading of Date.now()
MaxEntries == 23       \* ledger entries of the one-lesson ledger
MaxManifest == 40      \* largest exercise count asked of the one-lesson ledger
NumBlanks == 2         \* blanks of the FillBlanks exercise
NumDistractors == 1    \* entries of the FillBlanks options prop
NumOrdItems == 3       \* entries of the Ordering items prop
NumCheckpoints == 2    \* authored checkpoints of the InteractiveMedia exercise
NumOptions == 3        \* <Option> children of the Quiz
MaxKeyLen == 2         \* comma-separated entries of a Quiz answer key
NumInputs == 2         \* blanks of the FillBlanks exercise in input mode
NumPairs == 2          \* pairs of the Matching exercise
NumTokens == 3         \* items of the Grouping exercise, over its two groups
MaxWords == 7          \* words of the SpeakingChallenge sentence
MaxPieces == 5         \* pieces the text given to the blank parser is made of
NumSlots == 2          \* slots of the ImageLabeling exercise
NumLabels == 3         \* entries of its words prop
NumCards == 2          \* cards of the Flashcards exercise
MaxSessions == 2       \* recognition sessions alive at once
MaxTimers == 1         \* pending onNext timers
MaxPathLen == 5        \* characters of a location path given to normalizePath

(***************************************************************************)
(* Generic helpers                                                         *)
(***************************************************************************)
Range(s) == {s[i] : i \in DOMAIN s}

Min(a, b) == IF a <= b THEN a ELSE b

Max(a, b) == IF a >= b THEN a ELSE b

\* all orders a random-comparator sort can leave a list in
Shuffles(S) == {p \in [1..Cardinality(S) -> S] : Range(p) = S}

\* String.prototype.startsWith
StartsWith(s, p) == Len(p) <= Len(s) /\ SubSeq(s, 1, Len(p)) = p

\* String.prototype.substring(n)
Substring(s, n) == SubSeq(s, n + 1, Len(s))

(***************************************************************************)
(* Paths and exercise identity                                             *)
(***************************************************************************)
\* import.meta.env.BASE_URL of the deployment, "/E/"
BASE_URL == <<47, 69, 47>>

\* location.pathname of lesson n: BASE_URL followed by one letter
Pathname(n) == BASE_URL \o <<96 + n>>

\* normalizePath that returns the rest of the path as it is cut
normalizePathUnder_bare(base, path) ==
    IF base # <<>> /\ StartsWith(base, <<47>>) /\ base # <<47>> /\ StartsWith(path, base)
    THEN Substring(path, Len(base))
    ELSE path

\* normalizePath(path) in a build whose import.meta.env.BASE_URL is base
normalizePathUnder(base, path) ==
    LET Slash == <<47>>
    IN
    IF base # <<>> /\ StartsWith(base, Slash) /\ base # Slash
       /\ StartsWith(path, base)
    THEN LET relative == Substring(path, Len(base))
         IN IF StartsWith(relative, Slash) THEN relative ELSE Slash \o relative
    ELSE path

normalizePath(path) == normalizePathUnder(BASE_URL, path)

\* the for loop over the characters of str, left to right; the string is
\* walked by halves, and the hash after the first half is a value (first)
\* before the second half is walked, to keep the evaluation shallow
RECURSIVE HashLoop(_, _)
HashLoop(h, str) ==
    LET \* One round of the loop of simpleHash on the 32-bit value <<hi, lo>> (two
        \* 16-bit halves): hash = ((hash << 5) - hash) + char; hash = hash & hash.
        HashStep(char) ==
            LET lo == 31 * h[2] + char
                hi == 31 * h[1] + (lo \div 65536)
            IN <<hi % 65536, lo % 65536>>
    IN
    IF str = <<>> THEN h
    ELSE IF Len(str) = 1 THEN HashStep(str[1])
    ELSE LET mid == Len(str) \div 2
         IN CHOOSE last \in {HashLoop(first, SubSeq(str, mid + 1, Len(str))) :
                                first \in {HashLoop(h, SubSeq(str, 1, mid))}} : TRUE

\* The decimal string of the result is one-to-one with the number, which is
\* kept as its two 16-bit halves.
simpleHash(str) ==
    LET \* Math.abs of the signed 32-bit value <<hi, lo>>
        Abs32(h) ==
            IF h[1] >= 32768
            THEN <<(65535 - h[1] + (IF h[2] = 0 THEN 1 ELSE 0)) % 65536, (65536 - h[2]) % 65536>>
            ELSE h
    IN
    Abs32(HashLoop(<<0, 0>>, str))

\* `${cleanPath}:${exerciseType}:${hash}`, kept as its three parts
generateStableExerciseId(lessonPath, exerciseType, content) ==
    <<normalizePath(lessonPath), exerciseType, simpleHash(content)>>

(***************************************************************************)
(* Progress store (localStorage ledger)                                    *)
(***************************************************************************)
\* A Map<string, ExerciseProgress> is the sequence of its entries [k, v] in
\* insertion order.  localStorage is [has, blob]: has = FALSE when getItem
\* returns null, blob the stored JSON text.

NoItem == [has |-> FALSE, blob |-> <<>>]

\* JSON.stringify(Object.fromEntries(progress)): one member per entry
JSONstringify(progress) ==
    [i \in DOMAIN progress |->
        <<progress[i].k, progress[i].v.exerciseId, progress[i].v.lessonPath,
          progress[i].v.completed, progress[i].v.lastAttempt>>]

\* new Map(Object.entries(JSON.parse(data)))
JSONparse(data) ==
    [i \in DOMAIN data |->
        [k |-> data[i][1],
         v |-> [exerciseId |-> data[i][2], lessonPath |-> data[i][3],
                completed |-> data[i][4], lastAttempt |-> data[i][5]]]]

\* getAllProgress without its try/catch: a failing read propagates
getAllProgress_nocatch(ls, readOk) ==
    IF ~readOk THEN [threw |-> TRUE, value |-> <<>>]
    ELSE IF ~ls.has THEN [threw |-> FALSE, value |-> <<>>]
    ELSE [threw |-> FALSE, value |-> JSONparse(ls.blob)]

\* readOk = FALSE: getItem or JSON.parse throws; the catch returns new Map()
getAllProgress(ls, readOk) ==
    IF ~readOk THEN [threw |-> FALSE, value |-> <<>>]
    ELSE IF ~ls.has THEN [threw |-> FALSE, value |-> <<>>]
    ELSE [threw |-> FALSE, value |-> JSONparse(ls.blob)]

MapHas(m, key) == \E i \in DOMAIN m : m[i].k = key

MapGet(m, key) == m[CHOOSE i \in DOMAIN m : m[i].k = key].v

\* writeOk = FALSE: setItem throws.  Whatever the try block throws is caught
\* and logged.
saveExerciseProgress(ls, exerciseId, lessonPath, now, readOk, writeOk) ==
    LET \* Map.prototype.set
        MapSet(m, key, val) ==
            IF \E i \in DOMAIN m : m[i].k = key
            THEN [i \in DOMAIN m |-> IF m[i].k = key THEN [k |-> key, v |-> val] ELSE m[i]]
            ELSE Append(m, [k |-> key, v |-> val])
    IN
    LET got == getAllProgress(ls, readOk)
        progress == MapSet(got.value, exerciseId,
                           [exerciseId |-> exerciseId, lessonPath |-> lessonPath,
                            completed |-> TRUE, lastAttempt |-> now])
    IN IF got.threw THEN [threw |-> FALSE, ls |-> ls]
       ELSE IF writeOk THEN [threw |-> FALSE, ls |-> [has |-> TRUE, blob |-> JSONstringify(progress)]]
       ELSE [threw |-> FALSE, ls |-> ls]

\* isExerciseCompleted with the wrong default for a missing record (?? true)
isExerciseCompleted_defaultTrue(ls, exerciseId, readOk) ==
    LET got == getAllProgress(ls, readOk)
    IN [threw |-> got.threw,
        value |-> IF MapHas(got.value, exerciseId)
                  THEN MapGet(got.value, exerciseId).completed ELSE TRUE]

isExerciseCompleted(ls, exerciseId, readOk) ==
    LET got == getAllProgress(ls, readOk)
    IN [threw |-> got.threw,
        value |-> IF MapHas(got.value, exerciseId)
                  THEN MapGet(got.value, exerciseId).completed ELSE FALSE]

\* ProgressContext.markExerciseComplete
markExerciseComplete(ls, exerciseId, lessonPath, now, readOk, writeOk) ==
    saveExerciseProgress(ls, exerciseId, normalizePath(lessonPath), now, readOk, writeOk)

(***************************************************************************)
(* Math.round((completed / total) * 100) in IEEE-754 double arithmetic.    *)
(* A positive double is [bits, point]: its 53 significant binary digits,   *)
(* most significant first, and the number of digits left of the binary     *)
(* point (negative: that many zeros follow the point).                     *)
(***************************************************************************)
Percentage(completedExercises, totalExercises) ==
    LET MantissaBits == 53

        \* the mantissa is multiplied in limbs of this many digits
        LimbBits == 18

        \* binary digits of n in the given width, most significant first
        ToBitsN(n, width) == [i \in 1..width |-> (n \div (2 ^ (width - i))) % 2]

        \* binary digits of n without leading zeros (n < 2^30)
        ToBits(n) ==
            IF n = 0 THEN <<>>
            ELSE ToBitsN(n, CHOOSE w \in 1..30 : 2 ^ (w - 1) <= n /\ n < 2 ^ w)

        RECURSIVE FromBits(_)
        FromBits(b) ==
            IF b = <<>> THEN 0
            ELSE IF Len(b) = 1 THEN b[1]
            ELSE LET h == Len(b) \div 2
                 IN FromBits(SubSeq(b, 1, h)) * (2 ^ (Len(b) - h))
                    + FromBits(SubSeq(b, h + 1, Len(b)))

        \* b + 1
        Inc(b) ==
            IF \E i \in DOMAIN b : b[i] = 0
            THEN LET j == CHOOSE i \in DOMAIN b : b[i] = 0 /\ \A k \in DOMAIN b : k > i => b[k] = 1
                 IN [i \in DOMAIN b |-> IF i < j THEN b[i] ELSE IF i = j THEN 1 ELSE 0]
            ELSE <<1>> \o [i \in DOMAIN b |-> 0]

        \* round to nearest, ties to even: kept digits, the first dropped digit and
        \* whether any later dropped digit is non-zero
        RoundNearestEven(kept, guard, sticky, point) ==
            LET up == guard = 1 /\ (sticky \/ kept[MantissaBits] = 1)
                inc == Inc(kept)
            IN IF ~up THEN [bits |-> kept, point |-> point]
               ELSE IF Len(inc) > MantissaBits
                    THEN [bits |-> SubSeq(inc, 1, MantissaBits), point |-> point + 1]
                    ELSE [bits |-> inc, point |-> point]

        \* 2^i mod t
        RECURSIVE Pow2Mod(_, _)
        Pow2Mod(i, t) ==
            IF i = 0 THEN 1 % t
            ELSE LET h == Pow2Mod(i \div 2, t)
                 IN (((h * h) % t) * (IF i % 2 = 1 THEN 2 ELSE 1)) % t

        \* remainder of the long division r / t after i digits right of the point
        DivRem(r, t, i) == (r * Pow2Mod(i, t)) % t

        \* digit i right of the point of r / t, for 0 <= r < t
        DivDigit(r, t, i) == (2 * DivRem(r, t, i - 1)) \div t

        \* the double c / t, for integers 0 < c and 0 < t < 2^15
        DoubleDiv(c, t) ==
            LET int == ToBits(c \div t)
                r == c % t
                zeros == IF int # <<>> THEN 0
                         ELSE (CHOOSE i \in 1..16 : DivDigit(r, t, i) = 1
                                  /\ \A k \in 1..(i - 1) : DivDigit(r, t, k) = 0) - 1
                n == MantissaBits - Len(int)
                frac == [i \in 1..n |-> DivDigit(r, t, zeros + i)]
                rem == DivRem(r, t, zeros + n)
            IN RoundNearestEven(int \o frac, (2 * rem) \div t, (2 * rem) % t # 0,
                                IF int # <<>> THEN Len(int) ELSE 0 - zeros)

        \* digits of b * m for a 53-digit b and 1 < m < 2^12, limb by limb
        MulDigits(b, m) ==
            LET low == FromBits(SubSeq(b, MantissaBits - LimbBits + 1, MantissaBits)) * m
                mid == FromBits(SubSeq(b, MantissaBits - 2 * LimbBits + 1, MantissaBits - LimbBits)) * m
                       + (low \div (2 ^ LimbBits))
                high == FromBits(SubSeq(b, 1, MantissaBits - 2 * LimbBits)) * m
                        + (mid \div (2 ^ LimbBits))
            IN ToBits(high) \o ToBitsN(mid % (2 ^ LimbBits), LimbBits)
                            \o ToBitsN(low % (2 ^ LimbBits), LimbBits)

        \* the double x * m, for a positive double x and an integer 1 < m < 2^12
        DoubleMul(x, m) ==
            LET prod == MulDigits(x.bits, m)
                dropped == SubSeq(prod, MantissaBits + 1, Len(prod))
            IN RoundNearestEven(SubSeq(prod, 1, MantissaBits),
                                IF dropped = <<>> THEN 0 ELSE dropped[1],
                                \E i \in 2..Len(dropped) : dropped[i] = 1,
                                x.point + Len(dropped))

        \* Math.round of a positive double below 2^30: halves round up
        MathRound(x) ==
            IF x.point < 0 THEN 0
            ELSE FromBits(SubSeq(x.bits, 1, x.point))
                 + (IF x.point < MantissaBits /\ x.bits[x.point + 1] = 1 THEN 1 ELSE 0)
    IN
    IF totalExercises > 0
    THEN IF completedExercises = 0 THEN 0
         ELSE MathRound(DoubleMul(DoubleDiv(completedExercises, totalExercises), 100))
    ELSE 0

(***************************************************************************)
(* Progress queries                                                        *)
(***************************************************************************)
\* Array.from(progress.values()).filter(p => p.lessonPath === path && p.completed).length
CompletedIn(progress, path) ==
    LET Keep(e) == e.v.lessonPath = path /\ e.v.completed
    IN Len(SelectSeq(progress, Keep))

getLessonProgress(ls, lessonPath, totalExercises, readOk) ==
    LET got == getAllProgress(ls, readOk)
        completedExercises == Min(CompletedIn(got.value, lessonPath), totalExercises)
    IN [threw |-> got.threw,
        value |-> [path |-> lessonPath,
                   totalExercises |-> totalExercises,
                   completedExercises |-> completedExercises,
                   percentage |-> Percentage(completedExercises, totalExercises)]]

\* the for-loop shared by getFolderProgress and getCourseProgress:
\* acc = [totalExercises, completedExercises, completedLessons]
RECURSIVE SumLessons(_, _, _)
SumLessons(progress, lessons, acc) ==
    IF lessons = <<>> THEN acc
    ELSE LET lesson == Head(lessons)
             lessonCompleted == CompletedIn(progress, lesson.path)
         IN SumLessons(progress, Tail(lessons),
              [totalExercises |-> acc.totalExercises + lesson.exerciseCount,
               completedExercises |-> acc.completedExercises + lessonCompleted,
               completedLessons |-> acc.completedLessons
                   + (IF lessonCompleted = lesson.exerciseCount /\ lesson.exerciseCount > 0
                      THEN 1 ELSE 0)])

getFolderProgress(ls, folderPath, lessons, readOk) ==
    LET got == getAllProgress(ls, readOk)
        sum == SumLessons(got.value, lessons,
                 [totalExercises |-> 0, completedExercises |-> 0, completedLessons |-> 0])
    IN [threw |-> got.threw,
        value |-> [path |-> folderPath,
                   totalLessons |-> Len(lessons),
                   completedLessons |-> sum.completedLessons,
                   totalExercises |-> sum.totalExercises,
                   completedExercises |-> sum.completedExercises,
                   percentage |-> Percentage(sum.completedExercises, sum.totalExercises)]]

getCourseProgress(ls, allLessons, readOk) ==
    LET got == getAllProgress(ls, readOk)
        sum == SumLessons(got.value, allLessons,
                 [totalExercises |-> 0, completedExercises |-> 0, completedLessons |-> 0])
    IN [threw |-> got.threw,
        value |-> [totalFolders |-> Cardinality({allLessons[i].folder : i \in DOMAIN allLessons}),
                   totalLessons |-> Len(allLessons),
                   completedLessons |-> sum.completedLessons,
                   totalExercises |-> sum.totalExercises,
                   completedExercises |-> sum.completedExercises,
                   percentage |-> Percentage(sum.completedExercises, sum.totalExercises)]]

resetAllProgress_keep(ls, writeOk) == [threw |-> FALSE, ls |-> ls]

\* writeOk = FALSE: removeItem throws; the catch logs and returns
resetAllProgress(ls, writeOk) ==
    IF writeOk THEN [threw |-> FALSE, ls |-> NoItem] ELSE [threw |-> FALSE, ls |-> ls]


(***************************************************************************)
(* The progress store driven through the ProgressContext API               *)
(***************************************************************************)
\* a component that is not mounted in the specification at hand
Unmounted == <<>>

ExerciseIds == 1..NumIds

Lessons == 1..NumLessons

\* the canonical lesson paths readers query with
LessonPath(l) == normalizePath(Pathname(l))

\* lesson manifests: every lesson with the same expected exercise count
Manifests ==
    {[l \in Lessons |-> [path |-> LessonPath(l), exerciseCount |-> count, folder |-> l % 2]] :
        count \in 0..MaxTotal}

\* the ledger as a working read returns it
Ledger(ls) == getAllProgress(ls, TRUE).value

Call(op, id, path, total, lessons, readOk, writeOk, res) ==
    [op |-> op, id |-> id, path |-> path, total |-> total, lessons |-> lessons,
     readOk |-> readOk, writeOk |-> writeOk, threw |-> res.threw, value |-> res.value]

StoreInit ==
    /\ localStorage = NoItem
    /\ clock = 0
    /\ ret = Call("none", 0, <<>>, 0, <<>>, TRUE, TRUE, [threw |-> FALSE, value |-> FALSE])
    /\ fb = Unmounted
    /\ ord = Unmounted
    /\ media = Unmounted
    /\ ex = Unmounted

\* markExerciseComplete(exerciseId, location.pathname)
MarkExerciseComplete(id, l, now, readOk, writeOk) ==
    LET res == markExerciseComplete(localStorage, id, Pathname(l), now, readOk, writeOk)
    IN /\ clock' = now
       /\ localStorage' = res.ls
       /\ ret' = Call("markComplete", id, Pathname(l), 0, <<>>, readOk, writeOk,
                      [threw |-> res.threw, value |-> FALSE])
       /\ UNCHANGED <<fb, ord, media, ex>>

GetLessonProgressData(path, total, readOk) ==
    /\ ret' = Call("lessonProgress", 0, path, total, <<>>, readOk, TRUE,
                   getLessonProgress(localStorage, path, total, readOk))
    /\ UNCHANGED <<localStorage, clock, fb, ord, media, ex>>

StoreNext ==
    LET \* the lesson an exercise is on (its id carries the lesson path): two
        \* exercises to a lesson
        LessonOf(id) == 1 + (((id - 1) \div 2) % NumLessons)

        IsExerciseComplete(id, readOk) ==
            /\ ret' = Call("isComplete", id, <<>>, 0, <<>>, readOk, TRUE,
                           isExerciseCompleted(localStorage, id, readOk))
            /\ UNCHANGED <<localStorage, clock, fb, ord, media, ex>>

        GetFolderProgressData(lessons, readOk) ==
            /\ ret' = Call("folderProgress", 0, <<>>, 0, lessons, readOk, TRUE,
                           getFolderProgress(localStorage, <<>>, lessons, readOk))
            /\ UNCHANGED <<localStorage, clock, fb, ord, media, ex>>

        GetCourseProgressData(allLessons, readOk) ==
            /\ ret' = Call("courseProgress", 0, <<>>, 0, allLessons, readOk, TRUE,
                           getCourseProgress(localStorage, allLessons, readOk))
            /\ UNCHANGED <<localStorage, clock, fb, ord, media, ex>>

        ResetProgress(writeOk) ==
            LET res == resetAllProgress(localStorage, writeOk)
            IN /\ localStorage' = res.ls
               /\ ret' = Call("resetAll", 0, <<>>, 0, <<>>, TRUE, writeOk,
                              [threw |-> res.threw, value |-> FALSE])
               /\ UNCHANGED <<clock, fb, ord, media, ex>>
    IN
    \/ \E id \in ExerciseIds, now \in clock..MaxClock, readOk, writeOk \in BOOLEAN :
          MarkExerciseComplete(id, LessonOf(id), now, readOk, writeOk)
    \/ \E id \in ExerciseIds, readOk \in BOOLEAN : IsExerciseComplete(id, readOk)
    \/ \E l \in Lessons, total \in 0..MaxTotal, readOk \in BOOLEAN :
          GetLessonProgressData(LessonPath(l), total, readOk)
    \/ \E lessons \in Manifests, readOk \in BOOLEAN : GetFolderProgressData(lessons, readOk)
    \/ \E lessons \in Manifests, readOk \in BOOLEAN : GetCourseProgressData(lessons, readOk)
    \/ \E writeOk \in BOOLEAN : ResetProgress(writeOk)

SpecStore == StoreInit /\ [][StoreNext]_vars

(***************************************************************************)
(* One lesson whose exercises are completed one after the other            *)
(***************************************************************************)
\* the next exercise of lesson 1 is completed, with working storage
CompleteNext ==
    /\ Len(Ledger(localStorage)) < MaxEntries
    /\ MarkExerciseComplete(Len(Ledger(localStorage)) + 1, 1, clock, TRUE, TRUE)

LessonNext ==
    \/ CompleteNext
    \/ \E total \in 0..MaxManifest : GetLessonProgressData(LessonPath(1), total, TRUE)

SpecLesson == StoreInit /\ [][LessonNext]_vars


(***************************************************************************)
(* Properties of the progress store                                        *)
(***************************************************************************)
\* round(100 * c / t) in exact arithmetic, halves up
RoundedPercent(c, t) == IF t > 0 THEN (200 * c + t) \div (2 * t) ELSE 0

ProgressOps == {"lessonProgress", "folderProgress", "courseProgress"}

\* C6: lessonProgress reports completed = min(matching completed entries,
\* total) and percentage = round(100 * completed / total), 0 when total = 0.
C6_LessonProgressCapped ==
    ret.op = "lessonProgress" /\ ret.readOk =>
        /\ ret.value.completedExercises <= ret.total
        /\ ret.value.completedExercises
              = Min(CompletedIn(Ledger(localStorage), ret.path), ret.total)
        /\ ret.value.percentage = RoundedPercent(ret.value.completedExercises, ret.total)

\* the sum over the lessons of what lessonProgress reports for each
RECURSIVE SumOfLessonProgress(_, _, _)
SumOfLessonProgress(ls, lessons, readOk) ==
    IF lessons = <<>> THEN [completed |-> 0, total |-> 0]
    ELSE LET one == getLessonProgress(ls, Head(lessons).path, Head(lessons).exerciseCount, readOk).value
             rest == SumOfLessonProgress(ls, Tail(lessons), readOk)
         IN [completed |-> one.completedExercises + rest.completed,
             total |-> one.totalExercises + rest.total]

\* C7: folderProgress and courseProgress report the sums of the per-lesson
\* lessonProgress completed counts and of the expected counts.
C7_FolderSumsLessonProgress ==
    ret.op \in {"folderProgress", "courseProgress"} =>
        LET sum == SumOfLessonProgress(localStorage, ret.lessons, ret.readOk)
        IN /\ ret.value.completedExercises = sum.completed
           /\ ret.value.totalExercises = sum.total

\* C38: folderProgress and courseProgress never report more completed than
\* total: for every ledger and every manifest completedExercises <=
\* totalExercises, completedLessons <= totalLessons and 0 <= percentage <= 100.
C38_AggregatesBounded ==
    ret.op \in {"folderProgress", "courseProgress"} =>
        /\ ret.value.completedExercises <= ret.value.totalExercises
        /\ ret.value.completedLessons <= ret.value.totalLessons
        /\ ret.value.percentage \in 0..100

\* a record without its timestamp
Core(progress) ==
    {<<progress[i].k, progress[i].v.exerciseId, progress[i].v.lessonPath, progress[i].v.completed>> :
        i \in DOMAIN progress}

\* C8: with working storage markComplete(id, path) makes isComplete(id) true;
\* repeated, it changes nothing but lastAttempt; isComplete is false for an
\* id that is not in the ledger.
C8_MarkCompleteIdempotentUpsert ==
    [][
        /\ (ret'.op = "markComplete" /\ ret'.readOk /\ ret'.writeOk) =>
              /\ isExerciseCompleted(localStorage', ret'.id, TRUE).value
              /\ ((/\ MapHas(Ledger(localStorage), ret'.id)
                   /\ MapGet(Ledger(localStorage), ret'.id).lessonPath = normalizePath(ret'.path)
                   /\ MapGet(Ledger(localStorage), ret'.id).completed)
                  => Core(Ledger(localStorage')) = Core(Ledger(localStorage)))
        /\ (ret'.op = "isComplete" /\ ret'.readOk /\ ~MapHas(Ledger(localStorage'), ret'.id)) =>
              ret'.value = FALSE
    ]_vars

\* a second markComplete of the first-inserted exercise, after another one
C8_Witness ==
    /\ ret.op = "markComplete" /\ ret.readOk /\ ret.writeOk
    /\ Len(Ledger(localStorage)) = 2
    /\ Ledger(localStorage)[1].k = ret.id
    /\ Ledger(localStorage)[1].v.lastAttempt > Ledger(localStorage)[2].v.lastAttempt

\* C9: a ledger record is deleted by nothing but resetAll: an exercise that
\* is complete stays complete over every other store operation.
C9_RecordsOnlyDeletedByReset ==
    [][ret'.op # "resetAll" =>
          \A id \in ExerciseIds :
              isExerciseCompleted(localStorage, id, TRUE).value
                  => isExerciseCompleted(localStorage', id, TRUE).value]_vars

\* C10: no store operation throws; a failed read shows as no progress; a
\* failed write leaves the persisted ledger as it was.
C10_StorageFailuresContained ==
    [][
        /\ ~ret'.threw
        /\ (ret'.op = "isComplete" /\ ~ret'.readOk) => ret'.value = FALSE
        /\ (ret'.op \in ProgressOps /\ ~ret'.readOk) => ret'.value.completedExercises = 0
        /\ (ret'.op \in {"markComplete", "resetAll"} /\ ~ret'.writeOk) =>
              localStorage' = localStorage
    ]_vars

\* a failed read over a ledger that holds a completed exercise of the lesson
C10_Witness ==
    /\ ret.op = "lessonProgress" /\ ~ret.readOk /\ ret.total > 0
    /\ CompletedIn(Ledger(localStorage), ret.path) > 0
    /\ ret.value.completedExercises = 0


\* C20: after resetAll on a working storage no exercise is complete and the
\* lesson, folder and course progress report 0 completed exercises for every
\* manifest.
C20_ResetClearsAllProgress ==
    [][ret'.op = "resetAll" /\ ret'.writeOk =>
          /\ \A id \in ExerciseIds : ~isExerciseCompleted(localStorage', id, TRUE).value
          /\ \A l \in Lessons, total \in 0..MaxTotal :
                getLessonProgress(localStorage', LessonPath(l), total, TRUE).value.completedExercises = 0
          /\ \A lessons \in Manifests :
                /\ getFolderProgress(localStorage', <<>>, lessons, TRUE).value.completedExercises = 0
                /\ getCourseProgress(localStorage', lessons, TRUE).value.completedExercises = 0]_vars

\* a ledger that held records was reset
C20_Witness ==
    /\ ret.op = "resetAll"
    /\ ret.writeOk
    /\ clock > 0
    /\ localStorage = NoItem

(***************************************************************************)
(* FillBlanks, drag mode                                                   *)
(***************************************************************************)
\* the word with number n, one lower-case letter
Word(n) == <<96 + n>>

\* the answers parsed from the children, [a] [a] [b] [b] ...
answers == [i \in 1..NumBlanks |-> Word((i + 1) \div 2)]

\* the options prop (distractors): b, c, ...
options == [j \in 1..NumDistractors |-> Word(j + 1)]

\* allItems[i] is the text of the token with id i (`item-${i-1}-<random>`)
allItems ==
    LET \* getFreq(arr).get(t) || 0
        getFreq(arr, t) == Cardinality({i \in DOMAIN arr : arr[i] = t})

        \* the keys of a Set built from a list, in insertion order
        RECURSIVE SetKeys(_)
        SetKeys(arr) ==
            IF arr = <<>> THEN <<>>
            ELSE LET init == SetKeys(SubSeq(arr, 1, Len(arr) - 1))
                     last == arr[Len(arr)]
                 IN IF last \in Range(init) THEN init ELSE Append(init, last)
    IN
    LET allKeys == SetKeys(SetKeys(answers) \o SetKeys(options))
        RECURSIVE merged(_)
        merged(k) ==
            IF k > Len(allKeys) THEN <<>>
            ELSE [i \in 1..Max(getFreq(answers, allKeys[k]), getFreq(options, allKeys[k])) |-> allKeys[k]]
                 \o merged(k + 1)
    IN merged(1)

ItemIds == DOMAIN allItems

\* drop zone `drop-${index}` is the number index + 1
DropIds == 1..NumBlanks

\* obj with obj[key] = val
ObjSet(obj, key, val) == [k \in DOMAIN obj \cup {key} |-> IF k = key THEN val ELSE obj[k]]

\* obj after delete obj[key]
ObjDelete(obj, key) == [k \in DOMAIN obj \ {key} |-> obj[k]]

\* Object.keys(droppedItems).find(key => droppedItems[key] === id): the keys
\* find can return (0 for undefined); any matching key when there are several
FindDropZone(droppedItems, id) ==
    IF \E key \in DOMAIN droppedItems : droppedItems[key] = id
    THEN {key \in DOMAIN droppedItems : droppedItems[key] = id}
    ELSE {0}

\* arr.filter(x => x !== id)
Without(arr, id) == LET Keep(x) == x # id IN SelectSeq(arr, Keep)

\* the setDroppedItems updater of a placement
DroppedAfterPlace(prev, target, id, source) ==
    LET newDropped == ObjSet(prev, target, id)
    IN IF source # 0 THEN ObjDelete(newDropped, source) ELSE newDropped

\* the setDragItems updater of a placement that forgets to filter the placed word
BankAfterPlace_keep(prev, isFromBank, id, itemInTargetZone) ==
    IF itemInTargetZone # 0 THEN Append(prev, itemInTargetZone) ELSE prev

\* the setDragItems updater of a placement
BankAfterPlace(prev, isFromBank, id, itemInTargetZone) ==
    LET filtered == IF isFromBank THEN Without(prev, id) ELSE prev
    IN IF itemInTargetZone # 0 THEN Append(filtered, itemInTargetZone) ELSE filtered

\* droppedItems[key], 0 for undefined
Dropped(droppedItems, key) == IF key \in DOMAIN droppedItems THEN droppedItems[key] ELSE 0

FB_allCorrect(droppedItems) ==
    LET getItemText(id) == IF id \in ItemIds THEN allItems[id] ELSE <<>>
    IN
    \A idx \in DropIds :
        Dropped(droppedItems, idx) # 0 /\ getItemText(Dropped(droppedItems, idx)) = answers[idx]

FB_pathname == Pathname(1)

\* the state after the mount effects, for one shuffle of the bank
FBInit ==
    LET \* getTextFromChildren(children): "[a][a]..."
        childrenText ==
            LET RECURSIVE Text(_)
                Text(i) == IF i > NumBlanks THEN <<>> ELSE <<91>> \o answers[i] \o <<93>> \o Text(i + 1)
            IN Text(1)
    IN
    /\ localStorage = NoItem
    /\ clock = 0
    /\ ret = Call("none", 0, <<>>, 0, <<>>, TRUE, TRUE, [threw |-> FALSE, value |-> FALSE])
    /\ ord = Unmounted
    /\ media = Unmounted
    /\ ex = Unmounted
    /\ \E shuffled \in Shuffles(ItemIds) :
          fb = [dragItems |-> shuffled,
                droppedItems |-> <<>>,
                selectedId |-> 0,
                activeDropMenu |-> 0,
                inputs |-> [i \in DropIds |-> <<>>],
                touched |-> [i \in DropIds |-> FALSE],
                blurred |-> [i \in DropIds |-> FALSE],
                submitted |-> FALSE,
                showAnswers |-> FALSE,
                exerciseId |-> generateStableExerciseId(FB_pathname, "FillBlanks", childrenText),
                isCompleted |-> FALSE]

FB_unchanged == UNCHANGED <<localStorage, clock, ret, ord, media, ex>>

FBNext ==
    LET \* a drag of a visible, enabled word ends over drop zone `over` (0: over nothing)
        FB_handleDragEnd(activeId, over) ==
            /\ ~fb.submitted
            /\ activeId \in Range(fb.dragItems) \cup Range(fb.droppedItems)
            /\ \E sourceDropZoneId \in FindDropZone(fb.droppedItems, activeId) :
                 LET isFromBank == activeId \in Range(fb.dragItems)
                 IN IF over # 0
                    THEN /\ sourceDropZoneId # over
                         /\ fb' = [fb EXCEPT
                               !.droppedItems = DroppedAfterPlace(@, over, activeId, sourceDropZoneId),
                               !.dragItems = BankAfterPlace(@, isFromBank, activeId,
                                                            Dropped(fb.droppedItems, over)),
                               !.selectedId = 0]
                    ELSE IF sourceDropZoneId # 0
                         THEN fb' = [fb EXCEPT
                                 !.droppedItems = ObjDelete(@, sourceDropZoneId),
                                 !.dragItems = Append(@, activeId),
                                 !.selectedId = 0]
                         ELSE fb' = [fb EXCEPT !.selectedId = 0]
            /\ FB_unchanged

        FB_handleWordClick(id) ==
            /\ ~fb.submitted
            /\ id \in Range(fb.dragItems)
            /\ fb' = [fb EXCEPT !.selectedId = IF @ = id THEN 0 ELSE id,
                                !.activeDropMenu = 0]
            /\ FB_unchanged

        FB_handleDropZoneClick(dropId) ==
            /\ ~fb.submitted
            /\ LET currentItemId == Dropped(fb.droppedItems, dropId)
               IN IF fb.selectedId # 0
                  THEN IF currentItemId = fb.selectedId
                       THEN fb' = [fb EXCEPT !.selectedId = 0]
                       ELSE \E sourceDropZoneId \in FindDropZone(fb.droppedItems, fb.selectedId) :
                               fb' = [fb EXCEPT
                                   !.droppedItems = DroppedAfterPlace(@, dropId, fb.selectedId, sourceDropZoneId),
                                   !.dragItems = BankAfterPlace(@, fb.selectedId \in Range(fb.dragItems),
                                                                fb.selectedId, currentItemId),
                                   !.selectedId = 0]
                  ELSE IF currentItemId # 0
                       THEN fb' = [fb EXCEPT !.droppedItems = ObjDelete(@, dropId),
                                             !.dragItems = Append(@, currentItemId)]
                       ELSE fb' = [fb EXCEPT !.activeDropMenu = IF @ = dropId THEN 0 ELSE dropId]
            /\ FB_unchanged

        \* a word of the options menu shown under drop zone dropId is clicked
        FB_handleMenuOptionClick(dropId, itemId) ==
            /\ fb.activeDropMenu = dropId
            /\ ~fb.submitted
            /\ itemId \in Range(fb.dragItems)
            /\ fb' = [fb EXCEPT !.droppedItems = ObjSet(@, dropId, itemId),
                                !.dragItems = Without(@, itemId),
                                !.activeDropMenu = 0]
            /\ FB_unchanged

        FB_handleShowAnswers ==
            LET \* the forEach of handleShowAnswers: [newDropped, usedItemIds]
                RECURSIVE FillDrops(_, _, _)
                FillDrops(idx, newDropped, usedItemIds) ==
                    IF idx > NumBlanks THEN [newDropped |-> newDropped, usedItemIds |-> usedItemIds]
                    ELSE LET found == {i \in ItemIds : allItems[i] = answers[idx] /\ i \notin usedItemIds}
                         IN IF found = {} THEN FillDrops(idx + 1, newDropped, usedItemIds)
                            ELSE LET item == CHOOSE i \in found : \A j \in found : i <= j
                                 IN FillDrops(idx + 1, ObjSet(newDropped, idx, item), usedItemIds \cup {item})
            IN
            /\ ~fb.submitted
            /\ LET filled == FillDrops(1, <<>>, {})
                   NotUsed(i) == i \notin filled.usedItemIds
               IN fb' = [fb EXCEPT !.inputs = answers,
                                   !.submitted = TRUE,
                                   !.showAnswers = TRUE,
                                   !.droppedItems = filled.newDropped,
                                   !.dragItems = SelectSeq([i \in ItemIds |-> i], NotUsed)]
            /\ FB_unchanged

        \* Check: hookCheckAnswers, then the ledger write when everything is correct
        FB_checkAnswers ==
            /\ ~fb.submitted
            /\ IF FB_allCorrect(fb.droppedItems) /\ fb.exerciseId # <<>>
               THEN \E now \in clock..MaxClock, readOk, writeOk \in BOOLEAN :
                       /\ clock' = now
                       /\ localStorage' = markExerciseComplete(localStorage, fb.exerciseId, FB_pathname,
                                                               now, readOk, writeOk).ls
                       /\ fb' = [fb EXCEPT !.submitted = TRUE, !.showAnswers = FALSE,
                                           !.isCompleted = TRUE]
               ELSE /\ fb' = [fb EXCEPT !.submitted = TRUE, !.showAnswers = FALSE]
                    /\ UNCHANGED <<localStorage, clock>>
            /\ UNCHANGED <<ret, ord, media, ex>>

        \* the Fix button
        FB_fix ==
            /\ fb.submitted
            /\ fb' = [fb EXCEPT !.submitted = FALSE]
            /\ FB_unchanged

        FB_reset ==
            /\ fb.submitted
            /\ \E shuffled \in Shuffles(ItemIds) :
                  fb' = [fb EXCEPT !.submitted = FALSE,
                                   !.showAnswers = FALSE,
                                   !.inputs = [i \in DropIds |-> <<>>],
                                   !.touched = [i \in DropIds |-> FALSE],
                                   !.droppedItems = <<>>,
                                   !.dragItems = shuffled,
                                   !.selectedId = 0,
                                   !.activeDropMenu = 0]
            /\ FB_unchanged
    IN
    \/ \E activeId \in ItemIds, over \in DropIds \cup {0} : FB_handleDragEnd(activeId, over)
    \/ \E id \in ItemIds : FB_handleWordClick(id)
    \/ \E dropId \in DropIds : FB_handleDropZoneClick(dropId)
    \/ \E dropId \in DropIds, itemId \in ItemIds : FB_handleMenuOptionClick(dropId, itemId)
    \/ FB_handleShowAnswers
    \/ FB_checkAnswers
    \/ FB_fix
    \/ FB_reset

SpecFB == FBInit /\ [][FBNext]_vars

\* C1: no token is both in the bank and placed, and no two drop zones hold
\* the same token.
C1_BankAndPlacementsDisjoint ==
    /\ \A id \in Range(fb.dragItems) : id \notin Range(fb.droppedItems)
    /\ \A k1, k2 \in DOMAIN fb.droppedItems :
          k1 # k2 => fb.droppedItems[k1] # fb.droppedItems[k2]

\* words were placed by the learner: two drop zones are filled, not all is
\* correct, and a word is left in the bank
C1_Witness ==
    /\ ~fb.submitted
    /\ Cardinality(DOMAIN fb.droppedItems) >= 2
    /\ fb.dragItems # <<>>
    /\ ~FB_allCorrect(fb.droppedItems)

\* C2: every token created at mount is in exactly one place, the bank or
\* exactly one drop zone; a placement returns the previous occupant to the bank.
C2_TokenInExactlyOnePlace ==
    \A id \in ItemIds :
        Cardinality({i \in DOMAIN fb.dragItems : fb.dragItems[i] = id})
          + Cardinality({k \in DOMAIN fb.droppedItems : fb.droppedItems[k] = id}) = 1


(***************************************************************************)
(* Ordering                                                                *)
(***************************************************************************)
\* the items prop; options is not given
correctOrder == [i \in 1..NumOrdItems |-> Word(i)]

OrdItems(prefix) ==
    LET \* correctOrder.map((text, idx) => ({ id: `item-${idx}`, text }))
        OrdItem(i) == [id |-> <<prefix, i - 1>>, text |-> correctOrder[i]]
    IN
    [i \in 1..NumOrdItems |-> OrdItem(i)]

\* the orders .sort(() => Math.random() - 0.5) can leave
OrdShuffled(prefix) == {[i \in 1..NumOrdItems |-> OrdItems(prefix)[p[i]]] : p \in Shuffles(1..NumOrdItems)}

StringifyItems(items) ==
    LET \* the text of an id: "item-0", "bank-1", "answer-2"
        OrdIdText(id) ==
            (CASE id[1] = "item" -> <<105, 116, 101, 109>>
               [] id[1] = "bank" -> <<98, 97, 110, 107>>
               [] OTHER -> <<97, 110, 115, 119, 101, 114>>) \o <<45, 48 + id[2]>>

        \* JSON.stringify of one { id, text } object
        StringifyItem(item) ==
            <<123, 34, 105, 100, 34, 58, 34>> \o OrdIdText(item.id) \o <<34, 44, 34, 116, 101, 120, 116, 34, 58, 34>> \o item.text \o <<34, 125>>

        \* JSON.stringify(items)
        RECURSIVE StringifyFrom(_)
        StringifyFrom(i) ==
            IF i > Len(items) THEN <<>>
            ELSE (IF i > 1 THEN <<44>> ELSE <<>>) \o StringifyItem(items[i]) \o StringifyFrom(i + 1)
    IN
    <<91>> \o StringifyFrom(1) \o <<93>>

\* items.filter(i => i.id !== id)
WithoutId(items, id) == LET Keep(i) == i.id # id IN SelectSeq(items, Keep)

checkOrder(itemsToCheck, targetOrder) ==
    /\ Len(itemsToCheck) = Len(targetOrder)
    /\ \A idx \in DOMAIN itemsToCheck : itemsToCheck[idx].text = targetOrder[idx]

currentItems(o) == IF o.direction = "vertical" THEN o.items ELSE o.answerItems

isCorrectOrder_primary(o) == checkOrder(currentItems(o), correctOrder)

isCorrectOrder(o) ==
    \/ checkOrder(currentItems(o), correctOrder)
    \/ \E i \in DOMAIN o.alternatives : checkOrder(currentItems(o), o.alternatives[i])

Ord_pathname == Pathname(1)

\* the exercise ID effect: the id is computed from the items state
Ord_exerciseId(items) == generateStableExerciseId(Ord_pathname, "Ordering", StringifyItems(items))

\* the component after its mount effects, for one shuffle
Ord_mounted(direction, alternatives, shuffled, ls, readOk) ==
    LET items == IF direction = "vertical" THEN shuffled ELSE <<>>
        id == CHOOSE id \in {Ord_exerciseId(items)} : TRUE
    IN [direction |-> direction,
        alternatives |-> alternatives,
        items |-> items,
        bankItems |-> IF direction = "vertical" THEN <<>> ELSE shuffled,
        answerItems |-> <<>>,
        exerciseId |-> id,
        isCompleted |-> isExerciseCompleted(ls, id, readOk).value,
        submitted |-> FALSE,
        showingAnswer |-> FALSE]

OrdPrefix(direction) == IF direction = "vertical" THEN "item" ELSE "bank"

OrdInit ==
    LET \* the alternatives prop: absent, or one more accepted order (the last two
        \* items exchanged)
        OrdAlternatives ==
            {<<>>, <<[correctOrder EXCEPT ![NumOrdItems - 1] = correctOrder[NumOrdItems],
                                          ![NumOrdItems] = correctOrder[NumOrdItems - 1]]>>}
    IN
    /\ localStorage = NoItem
    /\ clock = 0
    /\ ret = Call("none", 0, <<>>, 0, <<>>, TRUE, TRUE, [threw |-> FALSE, value |-> FALSE])
    /\ fb = Unmounted
    /\ media = Unmounted
    /\ ex = Unmounted
    /\ \E direction \in {"vertical", "horizontal"}, alternatives \in OrdAlternatives :
         \E shuffled \in OrdShuffled(OrdPrefix(direction)) :
            ord = Ord_mounted(direction, alternatives, shuffled, localStorage, TRUE)

\* ord and localStorage after a handler left the state new
Ord_update(new, itemsSet) ==
    LET \* The effects that run after a handler's state updates: the exercise ID
        \* effect when items was set, then the completion effect when submitted or
        \* isCorrectOrder changed.  id is Ord_exerciseId(new.items), the id the ID
        \* effect computes.  The result is [ord, ls].
        Ord_commit(old, id, ls, now, readOk, writeOk) ==
            LET withId == IF itemsSet
                          THEN [new EXCEPT !.exerciseId = id,
                                           !.isCompleted = isExerciseCompleted(ls, id, readOk).value]
                          ELSE new
                fires == /\ (new.submitted # old.submitted \/ isCorrectOrder(new) # isCorrectOrder(old))
                         /\ new.submitted /\ isCorrectOrder(new) /\ withId.exerciseId # <<>>
            IN IF fires
               THEN [ord |-> [withId EXCEPT !.isCompleted = TRUE],
                     ls |-> markExerciseComplete(ls, withId.exerciseId, Ord_pathname, now, readOk, writeOk).ls]
               ELSE [ord |-> withId, ls |-> ls]
    IN
    /\ \E id \in {IF itemsSet THEN Ord_exerciseId(new.items) ELSE ord.exerciseId},
          now \in clock..MaxClock, readOk, writeOk \in BOOLEAN :
          LET done == Ord_commit(ord, id, localStorage, now, readOk, writeOk)
          IN /\ ord' = done.ord
             /\ localStorage' = done.ls
             /\ clock' = IF done.ls # localStorage THEN now ELSE clock
    /\ UNCHANGED <<ret, fb, media, ex>>

\* a drag whose drop outside takes the item out of the answer area only
Ord_handleDragEnd_lost(activeIdx, overIdx) ==
    LET \* arrayMove of @dnd-kit/sortable: the element at from is taken out and put in at to
        arrayMove(array, from, to) ==
            LET rest == [i \in 1..(Len(array) - 1) |-> IF i < from THEN array[i] ELSE array[i + 1]]
            IN [i \in 1..Len(array) |-> IF i < to THEN rest[i]
                                        ELSE IF i = to THEN array[from] ELSE rest[i - 1]]

        \* items.findIndex(item => item.id === id), one-based; 0 for -1
        findIndex(items, id) ==
            IF \E i \in DOMAIN items : items[i].id = id
            THEN CHOOSE i \in DOMAIN items : items[i].id = id /\ \A j \in 1..(i - 1) : items[j].id # id
            ELSE 0
    IN
    /\ activeIdx \in DOMAIN currentItems(ord)
    /\ overIdx \in DOMAIN currentItems(ord) \cup {0}
    /\ LET list == currentItems(ord)
           active == list[activeIdx].id
       IN IF ord.direction = "vertical"
          THEN IF overIdx # 0 /\ active # list[overIdx].id
               THEN Ord_update([ord EXCEPT !.items = arrayMove(@, findIndex(@, active),
                                                                  findIndex(@, list[overIdx].id))], TRUE)
               ELSE Ord_update(ord, FALSE)
          ELSE IF overIdx = 0
               THEN Ord_update([ord EXCEPT !.answerItems = WithoutId(@, active)], FALSE)
               ELSE IF active # list[overIdx].id
                    THEN Ord_update([ord EXCEPT !.answerItems =
                                        arrayMove(@, findIndex(@, active), findIndex(@, list[overIdx].id))], FALSE)
                    ELSE Ord_update(ord, FALSE)

\* a drag of a sortable item ends over another sortable item or over nothing (0)
Ord_handleDragEnd(activeIdx, overIdx) ==
    LET \* arrayMove of @dnd-kit/sortable: the element at from is taken out and put in at to
        arrayMove(array, from, to) ==
            LET rest == [i \in 1..(Len(array) - 1) |-> IF i < from THEN array[i] ELSE array[i + 1]]
            IN [i \in 1..Len(array) |-> IF i < to THEN rest[i]
                                        ELSE IF i = to THEN array[from] ELSE rest[i - 1]]

        \* items.findIndex(item => item.id === id), one-based; 0 for -1
        findIndex(items, id) ==
            IF \E i \in DOMAIN items : items[i].id = id
            THEN CHOOSE i \in DOMAIN items : items[i].id = id /\ \A j \in 1..(i - 1) : items[j].id # id
            ELSE 0
    IN
    /\ activeIdx \in DOMAIN currentItems(ord)
    /\ overIdx \in DOMAIN currentItems(ord) \cup {0}
    /\ LET list == currentItems(ord)
           active == list[activeIdx].id
       IN IF ord.direction = "vertical"
          THEN IF overIdx # 0 /\ active # list[overIdx].id
               THEN Ord_update([ord EXCEPT !.items = arrayMove(@, findIndex(@, active),
                                                                  findIndex(@, list[overIdx].id))], TRUE)
               ELSE Ord_update(ord, FALSE)
          ELSE IF overIdx = 0
               THEN Ord_update([ord EXCEPT !.answerItems = WithoutId(@, active),
                                           !.bankItems = Append(@, list[activeIdx])], FALSE)
               ELSE IF active # list[overIdx].id
                    THEN Ord_update([ord EXCEPT !.answerItems =
                                        arrayMove(@, findIndex(@, active), findIndex(@, list[overIdx].id))], FALSE)
                    ELSE Ord_update(ord, FALSE)

OrdNext ==
    LET \* the lesson page is left and opened again: the same exercise mounts anew
        Ord_mount ==
            /\ \E shuffled \in OrdShuffled(OrdPrefix(ord.direction)), readOk \in BOOLEAN :
                  ord' = Ord_mounted(ord.direction, ord.alternatives, shuffled, localStorage, readOk)
            /\ UNCHANGED <<localStorage, clock, ret, fb, media, ex>>

        \* a click on item i of the bank
        Ord_handleBankClick(i) ==
            /\ ord.direction = "horizontal"
            /\ ~ord.submitted
            /\ i \in DOMAIN ord.bankItems
            /\ Ord_update([ord EXCEPT !.bankItems = WithoutId(@, ord.bankItems[i].id),
                                      !.answerItems = Append(@, ord.bankItems[i])], FALSE)

        \* a click on item i of the answer area
        Ord_handleAnswerClick(i) ==
            /\ ord.direction = "horizontal"
            /\ i \in DOMAIN ord.answerItems
            /\ IF ord.submitted
               THEN Ord_update(ord, FALSE)
               ELSE Ord_update([ord EXCEPT !.answerItems = WithoutId(@, ord.answerItems[i].id),
                                           !.bankItems = Append(@, ord.answerItems[i])], FALSE)

        \* the Check button
        Ord_checkAnswers ==
            /\ ~ord.submitted
            /\ ~(ord.direction = "horizontal" /\ ord.answerItems = <<>>)
            /\ Ord_update([ord EXCEPT !.submitted = TRUE, !.showingAnswer = FALSE], FALSE)

        \* the Try again button
        Ord_reset ==
            /\ ord.submitted
            /\ \E shuffled \in OrdShuffled(OrdPrefix(ord.direction)) :
                  IF ord.direction = "vertical"
                  THEN Ord_update([ord EXCEPT !.submitted = FALSE, !.showingAnswer = FALSE,
                                              !.items = shuffled], TRUE)
                  ELSE Ord_update([ord EXCEPT !.submitted = FALSE, !.showingAnswer = FALSE,
                                              !.bankItems = shuffled, !.answerItems = <<>>], FALSE)

        \* the Show answers button (hints are switched on)
        Ord_handleShowAnswers ==
            IF ord.direction = "vertical"
            THEN Ord_update([ord EXCEPT !.items = OrdItems("item"),
                                        !.showingAnswer = TRUE, !.submitted = TRUE], TRUE)
            ELSE Ord_update([ord EXCEPT !.answerItems = OrdItems("answer"), !.bankItems = <<>>,
                                        !.showingAnswer = TRUE, !.submitted = TRUE], FALSE)
    IN
    \/ Ord_mount
    \/ \E activeIdx \in 1..NumOrdItems, overIdx \in 0..NumOrdItems : Ord_handleDragEnd(activeIdx, overIdx)
    \/ \E i \in 1..NumOrdItems : Ord_handleBankClick(i)
    \/ \E i \in 1..NumOrdItems : Ord_handleAnswerClick(i)
    \/ Ord_checkAnswers
    \/ Ord_reset
    \/ Ord_handleShowAnswers

SpecOrd == OrdInit /\ [][OrdNext]_vars

\* C3: the exerciseId of a mounted exercise is the same after every step:
\* a new mount with another shuffle and a rearrangement by the learner leave
\* the id used for isComplete/markComplete as it was.
C3_ExerciseIdStable ==
    [][ord'.exerciseId = ord.exerciseId]_vars

\* C12: the arrangement is judged correct iff its text values are, element
\* by element and with the same length, the primary correct order or one of
\* the alternatives.
C12_CorrectIffPrimaryOrAlternative ==
    LET texts == [i \in DOMAIN currentItems(ord) |-> currentItems(ord)[i].text]
    IN isCorrectOrder(ord) <=> (texts = correctOrder \/ texts \in Range(ord.alternatives))

\* an alternative order was submitted and accepted
C12_Witness ==
    /\ ord.submitted
    /\ ~ord.showingAnswer
    /\ ord.alternatives # <<>>
    /\ [i \in DOMAIN currentItems(ord) |-> currentItems(ord)[i].text] = ord.alternatives[1]
    /\ ord.isCompleted

\* C34: Ordering conserves tokens.  In vertical mode the list is, after any
\* sequence of drags, a permutation of the authored items (the same length, the
\* same multiset, each id once); in horizontal mode every token made at mount
\* or reset (or, after Show answers, every token Show answers made) is in
\* exactly one of the bank and the answer area: none lost, none duplicated.
C34_OrderingConservesTokens ==
    LET Count(list, x) == Cardinality({i \in DOMAIN list : list[i] = x})
        SameBag(a, b) == /\ Len(a) = Len(b)
                         /\ \A x \in Range(a) \cup Range(b) : Count(a, x) = Count(b, x)
    IN IF ord.direction = "vertical"
       THEN SameBag(ord.items, OrdItems("item"))
       ELSE \/ SameBag(ord.bankItems \o ord.answerItems, OrdItems("bank"))
            \/ ord.submitted /\ SameBag(ord.bankItems \o ord.answerItems, OrdItems("answer"))

\* a sentence builder with tokens in the bank and in the answer area, built and
\* not yet checked: all tokens but one are placed, the first of them a wrong one
C34_Witness ==
    /\ ord.direction = "horizontal"
    /\ ~ord.submitted
    /\ Len(ord.answerItems) = NumOrdItems - 1
    /\ Len(ord.bankItems) = 1
    /\ ord.answerItems[1].text # correctOrder[1]
    /\ {ord.answerItems[i].id : i \in DOMAIN ord.answerItems} \cup {ord.bankItems[1].id}
          = {OrdItems("bank")[i].id : i \in 1..NumOrdItems}

\* C36: revealing answers does not record completion: the Show answers action
\* (the only step that raises showingAnswer) causes no ledger write.
C36_ShowAnswersWritesNothing ==
    [][(~ord.showingAnswer /\ ord'.showingAnswer) => localStorage' = localStorage]_vars


(***************************************************************************)
(* InteractiveMedia.  Times are in tenths of a second.                     *)
(***************************************************************************)
\* the time prop of the i-th authored <Checkpoint>, a number: 6 s, 12 s, ...
CheckpointTime(i) == 60 * i

\* the length of the medium, one second after the last checkpoint time
Duration == CheckpointTime(NumCheckpoints) + 10

\* activeCheckpoint === null
NoCheckpoint == [time |-> -1, content |-> 0]

Media_pathname == Pathname(1)

\* a completion test that forgets the checkpoints
allCheckpointsCompleted_none(m) == TRUE

\* completedCheckpoints.size === checkpoints.length
allCheckpointsCompleted(m) == Cardinality(m.completedCheckpoints) = Len(m.checkpoints)

checkCheckpoints(m, time) ==
    LET \* checkpoints.find(cp => time >= cp.time && time < cp.time + 1 && !completedCheckpoints.has(cp.time)),
        \* NoCheckpoint for undefined
        hitCheckpoint ==
            LET Hit(cp) == time >= cp.time /\ time < cp.time + 10 /\ cp.time \notin m.completedCheckpoints
                hits == SelectSeq(m.checkpoints, Hit)
            IN IF hits = <<>> THEN NoCheckpoint ELSE hits[1]
    IN
    IF hitCheckpoint # NoCheckpoint
    THEN [m EXCEPT !.isPlaying = FALSE, !.activeCheckpoint = hitCheckpoint,
                   !.contentCompleted = IF m.activeCheckpoint = hitCheckpoint THEN @ ELSE FALSE]
    ELSE m

handleProgress(m, playedSeconds) ==
    IF m.seeking THEN m
    ELSE checkCheckpoints([m EXCEPT !.currentTime = playedSeconds], playedSeconds)

\* onTimeUpdate of the <audio> element and of the ReactPlayer
onTimeUpdate(m, time) ==
    IF m.type = "audio"
    THEN handleProgress(checkCheckpoints([m EXCEPT !.currentTime = time], time), time)
    ELSE IF ~m.seeking THEN checkCheckpoints([m EXCEPT !.currentTime = time], time) ELSE m

\* a Continue that marks every checkpoint
handleContinue_all(m) ==
    [m EXCEPT !.completedCheckpoints = {m.checkpoints[i].time : i \in DOMAIN m.checkpoints},
              !.activeCheckpoint = NoCheckpoint,
              !.contentCompleted = FALSE,
              !.isPlaying = TRUE]

\* a Continue that leaves the medium paused
handleContinue_paused(m) ==
    IF m.activeCheckpoint # NoCheckpoint
    THEN [m EXCEPT !.completedCheckpoints = @ \cup {m.activeCheckpoint.time},
                   !.activeCheckpoint = NoCheckpoint,
                   !.contentCompleted = FALSE]
    ELSE m

handleContinue(m) ==
    IF m.activeCheckpoint # NoCheckpoint
    THEN [m EXCEPT !.completedCheckpoints = @ \cup {m.activeCheckpoint.time},
                   !.activeCheckpoint = NoCheckpoint,
                   !.contentCompleted = FALSE,
                   !.isPlaying = TRUE]
    ELSE m

\* a Replay that always rewinds five seconds
handleReplay_rewind(m) ==
    IF m.activeCheckpoint = NoCheckpoint THEN m
    ELSE [m EXCEPT !.playerTime = Max(0, m.activeCheckpoint.time - 50),
                   !.currentTime = Max(0, m.activeCheckpoint.time - 50),
                   !.activeCheckpoint = NoCheckpoint,
                   !.contentCompleted = FALSE,
                   !.isPlaying = TRUE]

handleReplay(m) ==
    LET \* the targetTime of handleReplay
        ReplayTarget ==
            LET currentIndex == CHOOSE i \in DOMAIN m.checkpoints :
                                    /\ m.checkpoints[i].time = m.activeCheckpoint.time
                                    /\ \A j \in 1..(i - 1) : m.checkpoints[j].time # m.activeCheckpoint.time
                targetTime == IF currentIndex > 1 THEN m.checkpoints[currentIndex - 1].time + 11 ELSE 0
            IN IF targetTime >= m.activeCheckpoint.time
               THEN Max(0, m.activeCheckpoint.time - 50)
               ELSE targetTime
    IN
    IF m.activeCheckpoint = NoCheckpoint THEN m
    ELSE [m EXCEPT !.playerTime = ReplayTarget,
                   !.currentTime = ReplayTarget,
                   !.activeCheckpoint = NoCheckpoint,
                   !.contentCompleted = FALSE,
                   !.isPlaying = TRUE]

\* the component after mount; playerTime and endedPending are the media
\* element's position and its queued ended event, contentCompleted is whether
\* the exercise shown in the open checkpoint overlay has been completed
MediaInit ==
    LET \* the authored children: none, the checkpoints in descending order,
        \* checkpoints that all carry the first time, and checkpoints half a
        \* second apart; content is the child's number
        AuthoredChildren ==
            {<<>>,
             [i \in 1..NumCheckpoints |-> [time |-> CheckpointTime(NumCheckpoints + 1 - i), content |-> i]],
             [i \in 1..NumCheckpoints |-> [time |-> CheckpointTime(1), content |-> i]],
             [i \in 1..NumCheckpoints |-> [time |-> CheckpointTime(1) + 5 * (i - 1), content |-> i]]}

        \* .sort((a, b) => a.time - b.time), a stable sort
        RECURSIVE SortByTime(_)
        SortByTime(list) ==
            IF list = <<>> THEN <<>>
            ELSE LET init == SortByTime(SubSeq(list, 1, Len(list) - 1))
                     last == list[Len(list)]
                     NotAfter(cp) == cp.time <= last.time
                     After(cp) == cp.time > last.time
                 IN SelectSeq(init, NotAfter) \o <<last>> \o SelectSeq(init, After)

        \* the src prop, "m"
        Media_src == <<109>>
    IN
    /\ localStorage = NoItem
    /\ clock = 0
    /\ ret = Call("none", 0, <<>>, 0, <<>>, TRUE, TRUE, [threw |-> FALSE, value |-> FALSE])
    /\ fb = Unmounted
    /\ ord = Unmounted
    /\ ex = Unmounted
    /\ \E type \in {"audio", "video"}, children \in AuthoredChildren :
          media = [type |-> type,
                   checkpoints |-> SortByTime(children),
                   isPlaying |-> FALSE,
                   currentTime |-> 0,
                   activeCheckpoint |-> NoCheckpoint,
                   completedCheckpoints |-> {},
                   hasEnded |-> FALSE,
                   seeking |-> FALSE,
                   exerciseId |-> generateStableExerciseId(Media_pathname, "InteractiveMedia", Media_src),
                   isCompleted |-> FALSE,
                   playerTime |-> 0,
                   endedPending |-> FALSE,
                   contentCompleted |-> FALSE]

\* media and localStorage after a handler left the state new
Media_update(new, completedSet) ==
    \* The completion effect, run after a handler's state updates when hasEnded
    \* changed or completedCheckpoints was set.
    /\ IF /\ (new.hasEnded # media.hasEnded \/ completedSet)
          /\ new.hasEnded /\ allCheckpointsCompleted(new) /\ new.exerciseId # <<>>
       THEN \E now \in clock..MaxClock, readOk, writeOk \in BOOLEAN :
               LET ls == markExerciseComplete(localStorage, new.exerciseId, Media_pathname, now, readOk, writeOk).ls
               IN /\ media' = [new EXCEPT !.isCompleted = TRUE]
                  /\ localStorage' = ls
                  /\ clock' = IF ls # localStorage THEN now ELSE clock
       ELSE /\ media' = new
            /\ UNCHANGED <<localStorage, clock>>
    /\ UNCHANGED <<ret, fb, ord, ex>>

\* the controls are hidden from the pointer while a checkpoint is open
Media_controls == media.activeCheckpoint = NoCheckpoint

\* play() on a medium that has ended starts it from the beginning
Media_togglePlay ==
    /\ Media_controls
    /\ Media_update([media EXCEPT !.isPlaying = ~@,
                                  !.playerTime = IF ~media.isPlaying /\ @ = Duration THEN 0 ELSE @], FALSE)

\* the medium plays on to position time and reports it
Media_playTo(time) ==
    /\ media.isPlaying
    /\ ~media.endedPending
    /\ time > media.playerTime
    /\ Media_update(onTimeUpdate([media EXCEPT !.playerTime = time,
                                               !.endedPending = (time = Duration)], time), FALSE)

\* the medium reports the position it is at (after a seek, after a pause)
Media_timeUpdate ==
    /\ media.playerTime <= Duration
    /\ Media_update(onTimeUpdate(media, media.playerTime), FALSE)

Media_onEnded ==
    /\ media.endedPending
    /\ Media_update([media EXCEPT !.endedPending = FALSE, !.isPlaying = FALSE, !.hasEnded = TRUE], FALSE)

\* onPlay of the <audio> element: the element has started to play, by the
\* play() of the isPlaying effect or by the platform's media controls
Media_onPlay ==
    /\ media.type = "audio"
    /\ Media_update([media EXCEPT !.isPlaying = TRUE,
                                  !.playerTime = IF @ = Duration THEN 0 ELSE @], FALSE)

\* onPause of the <audio> element
Media_onPause ==
    /\ media.type = "audio"
    /\ Media_update([media EXCEPT !.isPlaying = FALSE], FALSE)

\* the learner completes the exercise shown in the checkpoint overlay
Media_completeContent ==
    /\ media.activeCheckpoint # NoCheckpoint
    /\ Media_update([media EXCEPT !.contentCompleted = TRUE], FALSE)

Media_handleContinue ==
    /\ media.activeCheckpoint # NoCheckpoint
    /\ Media_update(handleContinue(media), TRUE)

Media_handleReplay ==
    /\ media.activeCheckpoint # NoCheckpoint
    /\ Media_update(handleReplay(media), FALSE)

Media_handleSeekMouseDown ==
    /\ Media_controls
    /\ Media_update([media EXCEPT !.seeking = TRUE], FALSE)

Media_handleSeekChange(time) ==
    /\ Media_controls
    /\ Media_update([media EXCEPT !.currentTime = time], FALSE)

\* the slider's value is the displayed time
Media_handleSeekMouseUp ==
    /\ Media_controls
    /\ Media_update([media EXCEPT !.seeking = FALSE, !.playerTime = media.currentTime], FALSE)

\* the Restart button
Media_restart ==
    /\ Media_controls
    /\ Media_update([media EXCEPT !.playerTime = 0, !.currentTime = 0], FALSE)

\* the positions the medium is observed at: the start, the end, and for
\* every checkpoint time the middle and the end of its window and the
\* Replay target after it
Positions ==
    {p \in {0, Duration} \cup UNION {{t, t + 5, t + 10, t + 11} : t \in {CheckpointTime(i) : i \in 1..NumCheckpoints}} :
        p <= Duration}

MediaNext ==
    \/ Media_togglePlay
    \/ \E time \in Positions : Media_playTo(time)
    \/ Media_timeUpdate
    \/ Media_onEnded
    \/ Media_onPlay
    \/ Media_onPause
    \/ Media_completeContent
    \/ Media_handleContinue
    \/ Media_handleReplay
    \/ Media_handleSeekMouseDown
    \/ \E time \in Positions : Media_handleSeekChange(time)
    \/ Media_handleSeekMouseUp
    \/ Media_restart

SpecMedia == MediaInit /\ [][MediaNext]_vars

\* C4: the media exercise is recorded complete (a ledger write, the completed
\* badge) only in a state where hasEnded is set and the time of every
\* authored checkpoint is in completedCheckpoints.
C4_CompletionNeedsEndAndCheckpoints ==
    [][
        (localStorage' # localStorage \/ (media'.isCompleted /\ ~media.isCompleted))
          => /\ media'.hasEnded
             /\ \A i \in DOMAIN media'.checkpoints :
                   media'.checkpoints[i].time \in media'.completedCheckpoints
    ]_vars

\* recorded complete with checkpoints authored
C4_Witness ==
    /\ localStorage.has
    /\ media.isCompleted
    /\ Len(media.checkpoints) = NumCheckpoints

TimeUpdateReports(time) ==
    \/ Media_playTo(time)
    \/ time = media.playerTime /\ Media_timeUpdate

\* C21: a time update that reports a time in the one-second window of a
\* checkpoint whose time is not in completedCheckpoints stops playback and
\* makes that checkpoint the active one; a checkpoint whose time is in
\* completedCheckpoints is never made active; and while a checkpoint is
\* active, isPlaying is false.
C21_CheckpointPausesPlayback ==
    [][
        /\ \A time \in Positions :
              TimeUpdateReports(time) =>
                  LET open == {i \in DOMAIN media.checkpoints :
                                  /\ media.checkpoints[i].time <= time
                                  /\ time < media.checkpoints[i].time + 10
                                  /\ media.checkpoints[i].time \notin media.completedCheckpoints}
                  IN open # {} => /\ ~media'.isPlaying
                                  /\ \E i \in open : media'.activeCheckpoint = media.checkpoints[i]
        /\ (media'.activeCheckpoint # NoCheckpoint /\ media'.activeCheckpoint # media.activeCheckpoint)
              => media'.activeCheckpoint.time \notin media'.completedCheckpoints
        /\ media'.activeCheckpoint # NoCheckpoint => ~media'.isPlaying
    ]_vars

\* C22: while the medium plays on with no seek drag in progress, whatever the
\* distance between two time updates, the position never passes from before
\* the time of a checkpoint that is not in completedCheckpoints to beyond
\* that time without that checkpoint becoming the active one.
C22_NoCheckpointSkipped ==
    [][
        \A time \in Positions :
            (Media_playTo(time) /\ ~media.seeking) =>
                \A i \in DOMAIN media.checkpoints :
                    LET cp == media.checkpoints[i]
                    IN (media.playerTime < cp.time /\ cp.time < time /\ cp.time \notin media.completedCheckpoints)
                          => media'.activeCheckpoint.time = cp.time
    ]_vars

\* C23: completedCheckpoints changes only in a Continue step; a Continue step
\* adds exactly the time of the active checkpoint, clears the active
\* checkpoint and sets isPlaying; handleContinue with no active checkpoint
\* returns the state it was given; completedCheckpoints never loses a member.
C23_ContinueCompletesActiveCheckpoint ==
    [][
        /\ media'.completedCheckpoints # media.completedCheckpoints => Media_handleContinue
        /\ Media_handleContinue =>
              /\ media'.completedCheckpoints = media.completedCheckpoints \cup {media.activeCheckpoint.time}
              /\ media'.activeCheckpoint = NoCheckpoint
              /\ media'.isPlaying
        /\ media.activeCheckpoint = NoCheckpoint => handleContinue(media) = media
        /\ media.completedCheckpoints \subseteq media'.completedCheckpoints
    ]_vars

\* every authored checkpoint was continued and the medium plays on
C23_Witness ==
    /\ Len(media.checkpoints) = NumCheckpoints
    /\ \A i \in DOMAIN media.checkpoints : media.checkpoints[i].time \in media.completedCheckpoints
    /\ Cardinality(media.completedCheckpoints) = NumCheckpoints
    /\ media.activeCheckpoint = NoCheckpoint
    /\ media.isPlaying

\* the times of the authored checkpoints before the active one
EarlierTimes == {media.checkpoints[i].time : i \in DOMAIN media.checkpoints} \cap 0..(media.activeCheckpoint.time - 1)

\* the time of the checkpoint before the active one
PreviousTime == CHOOSE t \in EarlierTimes : \A u \in EarlierTimes : u <= t

\* active checkpoint time minus 5 seconds, floored at 0
FallbackRewind == IF media.activeCheckpoint.time > 50 THEN media.activeCheckpoint.time - 50 ELSE 0

\* a Replay step leaves the overlay, plays, keeps completedCheckpoints and
\* seeks (the medium and the displayed time) to target
ReplaySeeksTo(target) ==
    /\ media'.activeCheckpoint = NoCheckpoint
    /\ media'.isPlaying
    /\ media'.completedCheckpoints = media.completedCheckpoints
    /\ media'.playerTime = target
    /\ media'.currentTime = target

\* C24 as stated: Replay clears the active checkpoint, resumes playback,
\* keeps completedCheckpoints and seeks to 1.1 s after the previous checkpoint
\* when there is one and that lies before the active checkpoint, and to the
\* fallback (active checkpoint time minus 5 s, floored at 0) when there is no
\* previous checkpoint or the target would reach or pass the active one;
\* handleReplay with no active checkpoint returns the state it was given.
C24_ReplayFallbackWithoutPrevious ==
    [][
        /\ Media_handleReplay =>
              ReplaySeeksTo(IF EarlierTimes # {} /\ PreviousTime + 11 < media.activeCheckpoint.time
                            THEN PreviousTime + 11
                            ELSE FallbackRewind)
        /\ media.activeCheckpoint = NoCheckpoint => handleReplay(media) = media
    ]_vars

\* C24 amended: as stated, except that with no previous checkpoint Replay
\* seeks to the start of the medium (0), whatever the active checkpoint's
\* time; the fallback is used only when 1.1 s after the previous checkpoint
\* would reach or pass the active one.
C24_ReplaySeeksToSegmentStart ==
    [][
        /\ Media_handleReplay =>
              ReplaySeeksTo(IF EarlierTimes = {} THEN 0
                            ELSE IF PreviousTime + 11 < media.activeCheckpoint.time THEN PreviousTime + 11
                            ELSE FallbackRewind)
        /\ media.activeCheckpoint = NoCheckpoint => handleReplay(media) = media
    ]_vars

\* after a Replay that took the fallback: the second of two checkpoints half
\* a second apart was replayed
C24_Witness ==
    /\ media.playerTime = CheckpointTime(1) + 5 - 50
    /\ media.currentTime = media.playerTime
    /\ media.completedCheckpoints = {CheckpointTime(1)}
    /\ media.activeCheckpoint = NoCheckpoint
    /\ media.isPlaying

\* C25: for an audio and for a video medium, a time update that arrives while
\* a seek drag is in progress changes neither the displayed current time nor
\* the active checkpoint; the end of the drag clears the seeking flag and
\* sets the position of the medium to the dragged value.
C25_SeekDragShieldsDisplayedTime ==
    [][
        /\ \A time \in Positions :
              (media.seeking /\ TimeUpdateReports(time)) =>
                  /\ media'.currentTime = media.currentTime
                  /\ media'.activeCheckpoint = media.activeCheckpoint
        /\ Media_handleSeekMouseUp =>
              /\ ~media'.seeking
              /\ media'.playerTime = media.currentTime
    ]_vars

\* The learner plays the medium through: Play is pressed once, the medium
\* reports every position in turn, each checkpoint that opens is worked and
\* continued, nothing is paused, sought, replayed or restarted.
PlayThroughNext ==
    \/ ~media.hasEnded /\ ~media.isPlaying /\ media.playerTime = 0 /\ Media_togglePlay
    \/ \E time \in Positions :
          /\ \A p \in Positions : p > media.playerTime => time <= p
          /\ Media_playTo(time)
    \/ Media_onEnded
    \/ Media_completeContent
    \/ Media_handleContinue

\* A playing medium keeps reporting its position and then its end, and the
\* learner of the scenario keeps pressing Continue.
SpecPlayThrough == MediaInit /\ [][PlayThroughNext]_vars /\ WF_vars(PlayThroughNext)

\* C39: InteractiveMedia can always be completed by playing through: for every
\* authored checkpoint list, when the learner plays from the start, continues
\* at every checkpoint that opens and playback reaches the end, every authored
\* checkpoint has been completed and the exercise is eventually completed.
C39_PlayThroughCompletes ==
    <>(/\ media.isCompleted
       /\ \A i \in DOMAIN media.checkpoints : media.checkpoints[i].time \in media.completedCheckpoints)

\* C40: the Ended condition used for completion reflects the current
\* playback: once playback has ended and was resumed from an earlier position
\* (Restart, Replay, a seek back), the exercise is not completed before the
\* playback reaches the end again; so the step that completes it either
\* delivers the ended event or finds the medium at its end.
C40_EndedReflectsCurrentPlayback ==
    [][(~media.isCompleted /\ media'.isCompleted)
       => (media.endedPending \/ media'.playerTime = Duration)]_vars


(***************************************************************************)
(* Exercises kept in ex: what their specifications share                   *)
(***************************************************************************)
\* String.prototype.split(sep) for a one-character separator
RECURSIVE split(_, _)
split(str, sep) ==
    IF \E i \in DOMAIN str : str[i] = sep
    THEN LET i == CHOOSE j \in DOMAIN str : str[j] = sep /\ \A k \in 1..(j - 1) : str[k] # sep
         IN <<SubSeq(str, 1, i - 1)>> \o split(SubSeq(str, i + 1, Len(str)), sep)
    ELSE <<str>>

\* String.prototype.trim(): tab, line feed, carriage return and space are white space
trim(str) ==
    LET inked == {i \in DOMAIN str : str[i] \notin {9, 10, 13, 32}}
    IN IF inked = {} THEN <<>>
       ELSE SubSeq(str, CHOOSE i \in inked : \A j \in inked : i <= j,
                        CHOOSE i \in inked : \A j \in inked : i >= j)

\* Number.prototype.toString() of a non-negative integer
RECURSIVE toString(_)
toString(n) == IF n < 10 THEN <<48 + n>> ELSE toString(n \div 10) \o <<48 + (n % 10)>>

\* the page with only the exercise `mounted` on it, the ledger empty
ExInit(mounted) ==
    /\ localStorage = NoItem
    /\ clock = 0
    /\ ret = Call("none", 0, <<>>, 0, <<>>, TRUE, TRUE, [threw |-> FALSE, value |-> FALSE])
    /\ fb = Unmounted
    /\ ord = Unmounted
    /\ media = Unmounted
    /\ ex = mounted

\* a handler leaves the exercise in state new and writes nothing
ExStep(new) ==
    /\ ex' = new
    /\ UNCHANGED <<localStorage, clock, ret, fb, ord, media>>

\* a handler (or effect) leaves the exercise in state new and calls
\* markExerciseComplete(exerciseIdRef.current, location.pathname)
ExComplete(new) ==
    /\ \E now \in clock..MaxClock, readOk, writeOk \in BOOLEAN :
          /\ localStorage' = markExerciseComplete(localStorage, new.exerciseId, Pathname(1),
                                                   now, readOk, writeOk).ls
          /\ clock' = IF localStorage' # localStorage THEN now ELSE clock
    /\ ex' = new
    /\ UNCHANGED <<ret, fb, ord, media>>

\* a completion effect after a handler left the exercise in state new: when
\* it fires, the ledger is written and isCompleted is set
ExEffect(new, fires) ==
    IF fires
    THEN ExComplete([new EXCEPT !.isCompleted = TRUE])
    ELSE ExStep(new)

(***************************************************************************)
(* Quiz                                                                    *)
(***************************************************************************)
\* isCorrect of handleSubmit (and, once submitted, of the render)
Quiz_isCorrect(selected, answer) ==
    LET parts == split(answer, 44)
        correctAnswers == [i \in DOMAIN parts |-> trim(parts[i])]
    IN /\ Len(selected) = Len(correctAnswers)
       /\ \A i \in DOMAIN selected : selected[i] \in Range(correctAnswers)

QuizInit ==
    LET \* the answer props: up to MaxKeyLen option numbers joined by "," or by ", "
        QuizAnswers ==
            LET RECURSIVE Join(_, _)
                Join(nums, sep) ==
                    IF Len(nums) = 1 THEN toString(nums[1])
                    ELSE toString(nums[1]) \o sep \o Join(Tail(nums), sep)
            IN {Join(nums, sep) : nums \in UNION {[1..n -> 1..NumOptions] : n \in 1..MaxKeyLen},
                                  sep \in {<<44>>, <<44, 32>>}}
    IN
    \E answer \in QuizAnswers, multiple \in BOOLEAN :
        ExInit([component |-> "Quiz",
                answer |-> answer,
                multiple |-> multiple,
                selected |-> <<>>,
                submitted |-> FALSE,
                exerciseId |-> generateStableExerciseId(Pathname(1), "Quiz", answer),
                isCompleted |-> FALSE])

QuizNext ==
    LET Quiz_handleSelect(index) ==
            /\ ~ex.submitted
            /\ LET val == toString(index + 1)
                   isMultiple == ex.multiple \/ 44 \in Range(ex.answer)
                   NotVal(v) == v # val
               IN ExStep([ex EXCEPT !.selected =
                             IF isMultiple
                             THEN IF val \in Range(@) THEN SelectSeq(@, NotVal) ELSE Append(@, val)
                             ELSE <<val>>])

        \* the Check button, disabled while nothing is selected
        Quiz_handleSubmit ==
            /\ ~ex.submitted
            /\ ex.selected # <<>>
            /\ IF Quiz_isCorrect(ex.selected, ex.answer) /\ ex.exerciseId # <<>>
               THEN ExComplete([ex EXCEPT !.submitted = TRUE, !.isCompleted = TRUE])
               ELSE ExStep([ex EXCEPT !.submitted = TRUE])

        \* the Try again button
        Quiz_handleReset ==
            /\ ex.submitted
            /\ ExStep([ex EXCEPT !.selected = <<>>, !.submitted = FALSE])

        \* the Show answers button (hints are switched on)
        Quiz_handleShowAnswers ==
            /\ ex.component = "Quiz"
            /\ LET parts == split(ex.answer, 44)
               IN ExStep([ex EXCEPT !.selected = [i \in DOMAIN parts |-> trim(parts[i])],
                                    !.submitted = TRUE])

        \* resetProgress of the progress context while the quiz is mounted:
        \* the provider renders again, the quiz with it, and the quiz's id
        \* effect, none of whose dependencies changed, does not run
        Quiz_resetProgress ==
            /\ ex.component = "Quiz"
            /\ \E writeOk \in BOOLEAN :
                  localStorage' = resetAllProgress(localStorage, writeOk).ls
            /\ UNCHANGED <<clock, ret, fb, ord, media, ex>>
    IN
    \/ \E index \in 0..(NumOptions - 1) : Quiz_handleSelect(index)
    \/ Quiz_handleSubmit
    \/ Quiz_handleReset
    \/ Quiz_handleShowAnswers
    \/ Quiz_resetProgress

SpecQuiz == QuizInit /\ [][QuizNext]_vars

\* C11: a submitted quiz is judged correct iff the set of selected option
\* numbers equals the set of numbers parsed from the answer key.
C11_QuizCorrectIffSetsEqual ==
    LET parts == split(ex.answer, 44)
        keyIndices == {n \in 1..NumOptions : \E i \in DOMAIN parts : trim(parts[i]) = toString(n)}
        selectedIndices == {n \in 1..NumOptions : toString(n) \in Range(ex.selected)}
    IN ex.submitted => (Quiz_isCorrect(ex.selected, ex.answer) <=> selectedIndices = keyIndices)

\* C32: after every write to the ledger the mounted exercise reflects it: the
\* quiz shows its completed indicator iff the ledger holds its exerciseId.
C32_IndicatorReflectsLedger ==
    ex.isCompleted <=> isExerciseCompleted(localStorage, ex.exerciseId, TRUE).value

\* A lesson page with two Quiz instances.  Each instance has its own state and
\* its own exerciseIdRef; both share the ledger and location.pathname.
QuizPairInit ==
    LET \* the answer props of the two quizzes
        PairAnswers == {toString(1), toString(2)}
        Mounted(answer) == [answer |-> answer,
                            selected |-> <<>>,
                            submitted |-> FALSE,
                            exerciseId |-> generateStableExerciseId(Pathname(1), "Quiz", answer),
                            isCompleted |-> FALSE]
    IN \E first, second \in PairAnswers :
          ExInit([component |-> "QuizPair", quizzes |-> <<Mounted(first), Mounted(second)>>])

QuizPairNext ==
    LET \* a click on option index of quiz q (single choice)
        QuizPair_handleSelect(q, index) ==
            /\ ~ex.quizzes[q].submitted
            /\ ExStep([ex EXCEPT !.quizzes[q].selected = <<toString(index + 1)>>])

        \* the Check button of quiz q, disabled while nothing is selected
        QuizPair_handleSubmit(q) ==
            /\ ~ex.quizzes[q].submitted
            /\ ex.quizzes[q].selected # <<>>
            /\ IF Quiz_isCorrect(ex.quizzes[q].selected, ex.quizzes[q].answer)
                  /\ ex.quizzes[q].exerciseId # <<>>
               THEN /\ \E now \in clock..MaxClock, readOk, writeOk \in BOOLEAN :
                          /\ localStorage' = markExerciseComplete(localStorage, ex.quizzes[q].exerciseId,
                                                                   Pathname(1), now, readOk, writeOk).ls
                          /\ clock' = IF localStorage' # localStorage THEN now ELSE clock
                    /\ ex' = [ex EXCEPT !.quizzes[q].submitted = TRUE, !.quizzes[q].isCompleted = TRUE]
                    /\ UNCHANGED <<ret, fb, ord, media>>
               ELSE ExStep([ex EXCEPT !.quizzes[q].submitted = TRUE])

        \* the Try again button of quiz q
        QuizPair_handleReset(q) ==
            /\ ex.quizzes[q].submitted
            /\ ExStep([ex EXCEPT !.quizzes[q].selected = <<>>, !.quizzes[q].submitted = FALSE])

        \* the lesson is left and opened again: both quizzes mount anew and
        \* their id effects read the completed indicator from the ledger
        QuizPair_open ==
            \E readOk \in BOOLEAN :
               ExStep([ex EXCEPT !.quizzes =
                          [q \in DOMAIN @ |->
                              [ex.quizzes[q] EXCEPT !.selected = <<>>,
                                                    !.submitted = FALSE,
                                                    !.isCompleted =
                                                        isExerciseCompleted(localStorage,
                                                                            ex.quizzes[q].exerciseId,
                                                                            readOk).value]]])
    IN
    \/ \E q \in 1..2, index \in 0..(NumOptions - 1) : QuizPair_handleSelect(q, index)
    \/ \E q \in 1..2 : QuizPair_handleSubmit(q)
    \/ \E q \in 1..2 : QuizPair_handleReset(q)
    \/ QuizPair_open

SpecQuizPair == QuizPairInit /\ [][QuizPairNext]_vars

\* C37: completion of one exercise does not leak to another of the same
\* lesson: a Check of one quiz leaves isComplete of the other quiz's id as it
\* was, and when both quizzes have been completed with a working storage the
\* ledger holds two records.
C37_CompletionDoesNotLeak ==
    [][\A q \in 1..2 :
          LET other == ex.quizzes[3 - q]
          IN (~ex.quizzes[q].submitted /\ ex'.quizzes[q].submitted)
             => /\ isExerciseCompleted(localStorage', other.exerciseId, TRUE).value
                      = isExerciseCompleted(localStorage, other.exerciseId, TRUE).value
                /\ (isExerciseCompleted(localStorage', ex.quizzes[q].exerciseId, TRUE).value
                      /\ isExerciseCompleted(localStorage, other.exerciseId, TRUE).value)
                   => Len(Ledger(localStorage')) = 2]_vars


(***************************************************************************)
(* useBlanks and FillBlanks in input mode                                  *)
(***************************************************************************)
\* String.prototype.toLowerCase() on ASCII text
toLowerCase(str) == [i \in DOMAIN str |-> IF str[i] \in 65..90 THEN str[i] + 32 ELSE str[i]]

\* text.split(/(\[.*?\])/g): the pieces between the matches and the matches;
\* a match runs from a '[' to the nearest ']' with no line break between
RECURSIVE splitBlanks(_)
splitBlanks(text) ==
    LET Close(i) == {j \in (i + 1)..Len(text) : text[j] = 93}
        Nearest(i) == CHOOSE j \in Close(i) : \A k \in Close(i) : j <= k
        Opens == {i \in DOMAIN text :
                     /\ text[i] = 91
                     /\ Close(i) # {}
                     /\ \A k \in (i + 1)..(Nearest(i) - 1) : text[k] \notin {10, 13}}
    IN IF Opens = {} THEN <<text>>
       ELSE LET i == CHOOSE o \in Opens : \A k \in Opens : o <= k
                j == Nearest(i)
            IN <<SubSeq(text, 1, i - 1), SubSeq(text, i, j)>>
                  \o splitBlanks(SubSeq(text, j + 1, Len(text)))

\* blanksData: one record per piece that starts with '[' and ends with ']'
blanksData(text) ==
    LET IsBlank(p) == p # <<>> /\ p[1] = 91 /\ p[Len(p)] = 93
        hintPrefix == <<104, 105, 110, 116, 58>>
        IsHint(item) == StartsWith(item, hintPrefix)
        IsOption(item) == ~IsHint(item)
        Data(p) ==
            LET items == split(SubSeq(p, 2, Len(p) - 1), 124)
                hints == SelectSeq(Tail(items), IsHint)
            IN [answer |-> items[1],
                localOptions |-> SelectSeq(Tail(items), IsOption),
                hasHint |-> hints # <<>>,
                hint |-> IF hints = <<>> THEN <<>> ELSE Substring(hints[Len(hints)], 5)]
        blanks == SelectSeq(splitBlanks(text), IsBlank)
    IN [i \in DOMAIN blanks |-> Data(blanks[i])]

\* allCorrect of useBlanks
inputsAllCorrect(inputs, parsed) ==
    \A idx \in DOMAIN inputs : toLowerCase(trim(inputs[idx])) = toLowerCase(parsed[idx])

\* the exercise after its mount effects, the ledger not holding its id
Blanks_mounted(component, text) ==
    LET parsed == [i \in DOMAIN blanksData(text) |-> blanksData(text)[i].answer]
    IN [component |-> component,
        text |-> text,
        answers |-> parsed,
        inputs |-> [i \in DOMAIN parsed |-> <<>>],
        touched |-> [i \in DOMAIN parsed |-> FALSE],
        blurred |-> [i \in DOMAIN parsed |-> FALSE],
        submitted |-> FALSE,
        showAnswers |-> FALSE,
        exerciseId |-> generateStableExerciseId(Pathname(1), component, text),
        isCompleted |-> FALSE]

showAllAnswers_toggle(b) ==
    [b EXCEPT !.inputs = b.answers, !.submitted = ~b.submitted, !.showAnswers = TRUE]

showAllAnswers(b) ==
    [b EXCEPT !.inputs = b.answers, !.submitted = TRUE, !.showAnswers = TRUE]

BlanksInit ==
    LET \* the children of the exercise: NumInputs blanks, each written as [ab],
        \* as [ a] or as [A|b], with a blank between them
        BlankTexts ==
            LET tokens == {<<91, 97, 98, 93>>, <<91, 32, 97, 93>>, <<91, 65, 124, 98, 93>>}
                RECURSIVE Join(_)
                Join(ts) == IF Len(ts) = 1 THEN ts[1] ELSE ts[1] \o <<32>> \o Join(Tail(ts))
            IN {Join(ts) : ts \in [1..NumInputs -> tokens]}
    IN
    \E component \in {"FillBlanks", "InlineBlanks"}, text \in BlankTexts :
        ExInit(Blanks_mounted(component, text))

\* the state updates of a handler followed, in InlineBlanks, by its
\* completion effect (FillBlanks records completion in handleCheck)
Blanks_update(new) ==
    ExEffect(new, /\ new.component = "InlineBlanks"
                  /\ inputsAllCorrect(new.inputs, new.answers)
                  /\ new.exerciseId # <<>>
                  /\ ~new.isCompleted)

\* typing that leaves the blurred mark of the blank
Blanks_handleInputChange_keepBlurred(index, value) ==
    /\ ~ex.submitted
    /\ Blanks_update([ex EXCEPT !.inputs[index] = value,
                                !.touched[index] = TRUE])

\* typing into a blank, or picking one of its options; a FillBlanks input is
\* disabled once submitted
Blanks_handleInputChange(index, value) ==
    /\ ~ex.submitted
    /\ Blanks_update([ex EXCEPT !.inputs[index] = value,
                                !.touched[index] = TRUE,
                                !.blurred[index] = FALSE])

Blanks_handleBlur(index) ==
    /\ ~ex.submitted
    /\ Blanks_update([ex EXCEPT !.blurred[index] = TRUE])

\* the hint button of a blank (FillBlanks with showItemHints shows it until
\* submitted)
Blanks_revealAnswer(index) ==
    /\ ~ex.submitted
    /\ Blanks_update([ex EXCEPT !.inputs[index] = ex.answers[index], !.touched[index] = TRUE])

\* the Check button of FillBlanks
Blanks_checkAnswers ==
    /\ ex.component = "FillBlanks"
    /\ ~ex.submitted
    /\ IF inputsAllCorrect(ex.inputs, ex.answers) /\ ex.exerciseId # <<>>
       THEN ExComplete([ex EXCEPT !.submitted = TRUE, !.showAnswers = FALSE, !.isCompleted = TRUE])
       ELSE ExStep([ex EXCEPT !.submitted = TRUE, !.showAnswers = FALSE])

\* the Show answers button of FillBlanks
Blanks_handleShowAnswers ==
    /\ ex.component = "FillBlanks"
    /\ ~ex.submitted
    /\ ExStep(showAllAnswers(ex))

\* the Reset button
Blanks_reset ==
    LET \* reset of useBlanks
        hookReset(b) ==
            [b EXCEPT !.submitted = FALSE,
                      !.showAnswers = FALSE,
                      !.inputs = [i \in DOMAIN b.answers |-> <<>>],
                      !.touched = [i \in DOMAIN b.answers |-> FALSE]]
    IN
    /\ ex.submitted
    /\ ExStep(hookReset(ex))

BlanksNext ==
    LET \* what the learner types into a blank
        TypedValues == {<<>>, <<32, 65>>, <<98>>}

        \* the Fix button
        Blanks_fix ==
            /\ ex.submitted
            /\ ExStep([ex EXCEPT !.submitted = FALSE])
    IN
    \/ \E index \in 1..NumInputs, value \in TypedValues : Blanks_handleInputChange(index, value)
    \/ \E index \in 1..NumInputs : Blanks_handleBlur(index)
    \/ \E index \in 1..NumInputs : Blanks_revealAnswer(index)
    \/ Blanks_checkAnswers
    \/ Blanks_handleShowAnswers
    \/ Blanks_fix
    \/ Blanks_reset

SpecBlanks == BlanksInit /\ [][BlanksNext]_vars

\* C13: Reset leaves exactly the state of a fresh mount: every value empty,
\* touched false, blurred false, submitted false, showAnswers false.
C13_ResetGivesFreshState ==
    [][Blanks_reset =>
          LET fresh == Blanks_mounted(ex.component, ex.text)
          IN /\ ex'.inputs = fresh.inputs
             /\ ex'.touched = fresh.touched
             /\ ex'.blurred = fresh.blurred
             /\ ex'.submitted = fresh.submitted
             /\ ex'.showAnswers = fresh.showAnswers]_vars

\* C14: Show answers is idempotent, and after it every value is the blank's
\* answer and submitted is true.
C14_RevealAllIdempotent ==
    [][Blanks_handleShowAnswers =>
          /\ ex'.inputs = ex.answers
          /\ ex'.submitted
          /\ showAllAnswers(ex') = ex']_vars

\* answers were revealed over values the learner had typed
C14_Witness ==
    /\ ex.showAnswers
    /\ ex.submitted
    /\ \A i \in DOMAIN ex.inputs : ex.touched[i] /\ ex.inputs[i] = ex.answers[i]
    /\ \E i \in DOMAIN ex.inputs : ex.blurred[i]

\* C15: allCorrect is true iff for every blank the trimmed, lower-cased value
\* equals the trimmed, lower-cased answer.
C15_AllCorrectTrimsBothSides ==
    inputsAllCorrect(ex.inputs, ex.answers)
        <=> \A i \in DOMAIN ex.inputs :
               toLowerCase(trim(ex.inputs[i])) = toLowerCase(trim(ex.answers[i]))

\* value.trim().toLowerCase() === data.answer.toLowerCase()
isCorrectRaw(b, index) == toLowerCase(trim(b.inputs[index])) = toLowerCase(b.answers[index])

\* isWrong of the BlankStatus that renderContent of useBlanks hands to renderBlank
BlankStatus_isWrong(b, index) ==
    LET value == trim(b.inputs[index])
        showValidation == b.submitted \/ (b.touched[index] /\ value # <<>>)
        isPartialMatch == Len(value) > 0 /\ StartsWith(toLowerCase(b.answers[index]), toLowerCase(value))
    IN showValidation /\ ~isCorrectRaw(b, index) /\ (b.submitted \/ (~isPartialMatch \/ b.blurred[index]))

\* isWrong of renderBlank in FillBlanks (input and picker mode)
FillBlanks_isWrong(b, index) ==
    b.submitted /\ ~isCorrectRaw(b, index) /\ trim(b.inputs[index]) # <<>>

\* isWrongVal of renderBlank in InlineBlanks
InlineBlanks_isWrongVal(b, index) ==
    /\ b.touched[index] /\ b.blurred[index] /\ trim(b.inputs[index]) # <<>>
    /\ ~isCorrectRaw(b, index)

\* the blank is drawn in red
ShownWrong(index) ==
    \/ BlankStatus_isWrong(ex, index)
    \/ IF ex.component = "FillBlanks" THEN FillBlanks_isWrong(ex, index) ELSE InlineBlanks_isWrongVal(ex, index)

\* the trimmed, lower-cased value and answer of a blank
TrimmedValue(index) == toLowerCase(trim(ex.inputs[index]))
TrimmedAnswer(index) == toLowerCase(trim(ex.answers[index]))

\* C26: a blank is shown as wrong only if its value is not correct and the
\* exercise is submitted, or the typed text is not a non-empty strict prefix
\* of the answer, or the blank is blurred.
C26_ShownWrongOnlyIfPolicyAllows ==
    \A index \in DOMAIN ex.inputs :
        ShownWrong(index) =>
            /\ TrimmedValue(index) # TrimmedAnswer(index)
            /\ \/ ex.submitted
               \/ ex.blurred[index]
               \/ ~(/\ TrimmedValue(index) # <<>>
                     /\ TrimmedValue(index) # TrimmedAnswer(index)
                     /\ StartsWith(TrimmedAnswer(index), TrimmedValue(index)))

\* the step changes no part of the state of useBlanks but the ones named
BlanksFrame(inputs, touched, blurred, submitted) ==
    /\ ex'.answers = ex.answers
    /\ inputs \/ ex'.inputs = ex.inputs
    /\ touched \/ ex'.touched = ex.touched
    /\ blurred \/ ex'.blurred = ex.blurred
    /\ submitted \/ (ex'.submitted = ex.submitted /\ ex'.showAnswers = ex.showAnswers)

\* C27: handleInputChange(i, v) sets value i to v, touched i to true and
\* blurred i to false and nothing else; handleBlur(i) sets blurred i to true
\* and nothing else; revealAnswer(i) sets value i to the answer of blank i and
\* touched i to true and changes neither submitted nor another blank;
\* checkAnswers sets submitted to true and changes no value.
C27_BlankHandlersFrame ==
    [][
        \A i \in DOMAIN ex.inputs :
            /\ Blanks_handleInputChange(i, ex'.inputs[i]) =>
                  /\ ex'.inputs = [ex.inputs EXCEPT ![i] = ex'.inputs[i]]
                  /\ ex'.touched = [ex.touched EXCEPT ![i] = TRUE]
                  /\ ex'.blurred = [ex.blurred EXCEPT ![i] = FALSE]
                  /\ BlanksFrame(TRUE, TRUE, TRUE, FALSE)
            /\ Blanks_handleBlur(i) =>
                  /\ ex'.blurred = [ex.blurred EXCEPT ![i] = TRUE]
                  /\ BlanksFrame(FALSE, FALSE, TRUE, FALSE)
            /\ Blanks_revealAnswer(i) =>
                  /\ ex'.inputs = [ex.inputs EXCEPT ![i] = ex.answers[i]]
                  /\ ex'.touched = [ex.touched EXCEPT ![i] = TRUE]
                  /\ BlanksFrame(TRUE, TRUE, FALSE, FALSE)
            /\ Blanks_checkAnswers =>
                  /\ ex'.submitted
                  /\ ex'.inputs = ex.inputs
    ]_vars

\* blank 1 was blurred and typed into again, blank 2 was blurred and then
\* revealed, and the answers were checked
C27_Witness ==
    /\ ex.submitted
    /\ ex.touched[1] /\ ~ex.blurred[1] /\ ex.inputs[1] # <<>> /\ ex.inputs[1] # ex.answers[1]
    /\ ex.touched[2] /\ ex.blurred[2] /\ ex.inputs[2] = ex.answers[2]


(***************************************************************************)
(* Matching                                                                *)
(***************************************************************************)
\* the pairs prop: the left texts differ, the right texts are x, x, y, y, ...
pairs == [i \in 1..NumPairs |-> [left |-> Word(i), right |-> Word(23 + (i + 1) \div 2)]]

NoSelection == [id |-> 0, type |-> "none"]

Matching_isCorrect_index(m, targetIndex) ==
    /\ targetIndex \in DOMAIN m.matches
    /\ m.matches[targetIndex] = targetIndex

\* isCorrect(targetIndex); matches maps a target's index to a draggable's
Matching_isCorrect(m, targetIndex) ==
    /\ targetIndex \in DOMAIN m.matches
    /\ LET draggableIndex == m.matches[targetIndex]
       IN IF m.direction = "right"
          THEN pairs[draggableIndex].right = pairs[targetIndex].right
          ELSE pairs[draggableIndex].left = pairs[targetIndex].left

Matching_allCorrect(m) == \A i \in DOMAIN pairs : Matching_isCorrect(m, i)

\* the state updates of a handler followed by the completion effect, which
\* runs when submitted or allCorrect changed
Matching_update(new) ==
    ExEffect(new, /\ (new.submitted # ex.submitted
                        \/ Matching_allCorrect(new) # Matching_allCorrect(ex))
                  /\ new.submitted /\ Matching_allCorrect(new) /\ new.exerciseId # <<>>)

\* newMatches of handleDragEnd and handleItemClick
Matching_place(matches, targetId, draggableId) ==
    LET prevKeys == {k \in DOMAIN matches : matches[k] = draggableId}
        removed == IF prevKeys = {} THEN matches
                   ELSE ObjDelete(matches, CHOOSE k \in prevKeys : \A j \in prevKeys : k <= j)
    IN ObjSet(removed, targetId, draggableId)

MatchingInit ==
    \E direction \in {"right", "left"}, shuffled \in Shuffles(1..NumPairs) :
        LET Quoted(str) == <<34>> \o str \o <<34>>
            Pair(i) == <<123, 34, 108, 101, 102, 116, 34, 58>> \o Quoted(pairs[i].left)
                          \o <<44, 34, 114, 105, 103, 104, 116, 34, 58>> \o Quoted(pairs[i].right)
                          \o <<125>>
            RECURSIVE From(_)
            From(i) == IF i = NumPairs THEN Pair(i) ELSE Pair(i) \o <<44>> \o From(i + 1)
        IN ExInit([component |-> "Matching",
                   direction |-> direction,
                   draggableItems |-> shuffled,
                   matches |-> <<>>,
                   submitted |-> FALSE,
                   selected |-> NoSelection,
                   exerciseId |-> generateStableExerciseId(Pathname(1), "Matching",
                                                           <<91>> \o From(1) \o <<93>>),
                   isCompleted |-> FALSE])

\* a drag of a listed draggable ends over a listed target or over nothing (0)
Matching_handleDragEnd(active, over) ==
    /\ active \notin Range(ex.matches)
    /\ over \notin DOMAIN ex.matches
    /\ Matching_update([ex EXCEPT !.matches = IF over # 0 THEN Matching_place(@, over, active) ELSE @,
                                  !.selected = NoSelection])

\* a click that drops the selection when an item of the same class is clicked
Matching_handleItemClick_drop(id, type) ==
    /\ IF type = "draggable" THEN id \notin Range(ex.matches) ELSE id \notin DOMAIN ex.matches
    /\ Matching_update(
          IF ex.submitted THEN ex
          ELSE IF ex.selected = NoSelection THEN [ex EXCEPT !.selected = [id |-> id, type |-> type]]
          ELSE IF ex.selected.type = type THEN [ex EXCEPT !.selected = NoSelection]
          ELSE LET draggableId == IF type = "draggable" THEN id ELSE ex.selected.id
                   targetId == IF type = "target" THEN id ELSE ex.selected.id
               IN [ex EXCEPT !.matches = Matching_place(@, targetId, draggableId),
                             !.selected = NoSelection])

\* a click on a listed draggable or a listed target; the ids drag-i and
\* target-i are kept as the index i and the type
Matching_handleItemClick(id, type) ==
    /\ IF type = "draggable" THEN id \notin Range(ex.matches) ELSE id \notin DOMAIN ex.matches
    /\ Matching_update(
          IF ex.submitted THEN ex
          ELSE IF ex.selected = NoSelection THEN [ex EXCEPT !.selected = [id |-> id, type |-> type]]
          ELSE IF ex.selected.id = id /\ ex.selected.type = type THEN [ex EXCEPT !.selected = NoSelection]
          ELSE IF ex.selected.type = type THEN [ex EXCEPT !.selected = [id |-> id, type |-> type]]
          ELSE LET draggableId == IF type = "draggable" THEN id ELSE ex.selected.id
                   targetId == IF type = "target" THEN id ELSE ex.selected.id
               IN [ex EXCEPT !.matches = Matching_place(@, targetId, draggableId),
                             !.selected = NoSelection])

\* a render of the parent passes a fresh pairs array with the same content:
\* the effects that depend on pairs run again, the first shuffles the tokens
\* and the second reads the completion badge from the ledger
Matching_rerender ==
    /\ ex.component = "Matching"
    /\ \E shuffled \in Shuffles(1..NumPairs), readOk \in BOOLEAN :
          ExStep([ex EXCEPT !.draggableItems = shuffled,
                            !.isCompleted = isExerciseCompleted(localStorage, ex.exerciseId, readOk).value])

MatchingNext ==
    LET \* the Remove pair button of a completed pair
        Matching_removePair(targetId) ==
            /\ ~ex.submitted
            /\ targetId \in DOMAIN ex.matches
            /\ Matching_update([ex EXCEPT !.matches = ObjDelete(@, targetId)])

        \* the Check button, disabled while nothing is matched
        Matching_checkAnswers ==
            /\ ~ex.submitted
            /\ DOMAIN ex.matches # {}
            /\ Matching_update([ex EXCEPT !.submitted = TRUE, !.selected = NoSelection])

        \* the Try again button
        Matching_reset ==
            /\ ex.submitted
            /\ \E shuffled \in Shuffles(1..NumPairs) :
                  Matching_update([ex EXCEPT !.submitted = FALSE, !.matches = <<>>,
                                             !.selected = NoSelection, !.draggableItems = shuffled])

        \* the Show answers button
        Matching_handleShowAnswers ==
            /\ ex.component = "Matching"
            /\ Matching_update([ex EXCEPT !.matches = [idx \in DOMAIN pairs |-> idx],
                                          !.submitted = TRUE,
                                          !.selected = NoSelection])
    IN
    \/ \E active \in 1..NumPairs, over \in 0..NumPairs : Matching_handleDragEnd(active, over)
    \/ \E id \in 1..NumPairs, type \in {"draggable", "target"} : Matching_handleItemClick(id, type)
    \/ \E targetId \in 1..NumPairs : Matching_removePair(targetId)
    \/ Matching_checkAnswers
    \/ Matching_reset
    \/ Matching_handleShowAnswers
    \/ Matching_rerender

SpecMatching == MatchingInit /\ [][MatchingNext]_vars

\* C16: a target is judged correct iff a token is placed on it and the pair
\* at the token's index has the same target-side text as the target's pair;
\* the exercise is correct iff every target is, so an unmatched target makes
\* it incorrect.
C16_MatchingCorrectness ==
    LET TargetText(i) == IF ex.direction = "right" THEN pairs[i].right ELSE pairs[i].left
        Correct(t) == t \in DOMAIN ex.matches /\ TargetText(ex.matches[t]) = TargetText(t)
    IN /\ \A t \in DOMAIN pairs : Matching_isCorrect(ex, t) <=> Correct(t)
       /\ Matching_allCorrect(ex) <=> \A t \in DOMAIN pairs : Correct(t)
       /\ (\E t \in DOMAIN pairs : t \notin DOMAIN ex.matches) => ~Matching_allCorrect(ex)

\* a submitted arrangement is accepted although a token sits on the target of
\* another pair with the same target-side text
C16_Witness ==
    /\ ex.submitted
    /\ Matching_allCorrect(ex)
    /\ \E t \in DOMAIN ex.matches : ex.matches[t] # t
    /\ ex.isCompleted

\* C28: a click with nothing selected selects the item; a click on the
\* selected item clears the selection; a click on another item of the same
\* class replaces the selection; a click on an item of the other class puts
\* the token on the target (and nowhere else) and clears the selection; the
\* end of a drag clears the selection; while submitted a click changes
\* neither the selection nor the matches.
C28_MatchingClickMode ==
    [][
        /\ \A id \in 1..NumPairs, type \in {"draggable", "target"} :
              (ex' # ex /\ Matching_handleItemClick(id, type)) =>
                  LET clicked == [id |-> id, type |-> type]
                      token == IF type = "draggable" THEN id ELSE ex.selected.id
                      target == IF type = "target" THEN id ELSE ex.selected.id
                  IN IF ex.submitted
                     THEN ex'.selected = ex.selected /\ ex'.matches = ex.matches
                     ELSE IF ex.selected = NoSelection
                     THEN ex'.selected = clicked /\ ex'.matches = ex.matches
                     ELSE IF ex.selected = clicked
                     THEN ex'.selected = NoSelection /\ ex'.matches = ex.matches
                     ELSE IF ex.selected.type = type
                     THEN ex'.selected = clicked /\ ex'.matches = ex.matches
                     ELSE /\ ex'.selected = NoSelection
                          /\ target \in DOMAIN ex'.matches
                          /\ \A t \in DOMAIN ex'.matches : ex'.matches[t] = token <=> t = target
                          /\ \A t \in DOMAIN ex.matches :
                                ex.matches[t] # token /\ t # target
                                    => t \in DOMAIN ex'.matches /\ ex'.matches[t] = ex.matches[t]
        /\ ex'.selected # NoSelection =>
              \A active \in 1..NumPairs, over \in 0..NumPairs : ~Matching_handleDragEnd(active, over)
    ]_vars

\* a target is selected by a click after a token was placed
C28_Witness ==
    /\ ~ex.submitted
    /\ ex.selected.type = "target"
    /\ DOMAIN ex.matches # {}

\* C29: the order of the tokens is drawn once per exercise instance: in
\* Matching the order of the bank changes only by the Try again button (a
\* submitted exercise becomes unsubmitted with no matches); a render of the
\* parent with equal content never changes it.
C29_TokenOrderShuffledOnce ==
    [][ex'.draggableItems # ex.draggableItems =>
          ex.submitted /\ ~ex'.submitted /\ ex'.matches = <<>>]_vars

\* C35: once an exercise is submitted its answer state is frozen until Try
\* again or Show answers: while submitted is true a drag changes no match and
\* records no completion, so a wrong submission never becomes a recorded
\* completion without a new Check.
C35_FrozenWhileSubmitted ==
    [][(/\ ex.submitted
        /\ \E active \in 1..NumPairs, over \in 0..NumPairs : Matching_handleDragEnd(active, over))
       => /\ ex'.matches = ex.matches
          /\ localStorage' = localStorage
          /\ ex'.isCompleted = ex.isCompleted]_vars


(***************************************************************************)
(* Grouping                                                                *)
(***************************************************************************)
\* the groups prop: two groups; the last item of the second group has the
\* text of the first item of the first group
groups ==
    LET half == (NumTokens + 1) \div 2
    IN <<[i \in 1..half |-> Word(i)],
         [i \in 1..(NumTokens - half) |-> IF i = NumTokens - half THEN Word(1) ELSE Word(half + i)]>>

\* Object.values(groups).flat(): the text of the item with id `item-${i-1}-${text}`
GroupingTexts == groups[1] \o groups[2]

isAllCorrect_placedOnly(g) ==
    \A item \in DOMAIN g.placements : GroupingTexts[item] \in Range(groups[g.placements[item]])

isAllCorrect(g) ==
    \A item \in Range(g.items) :
        /\ item \in DOMAIN g.placements
        /\ GroupingTexts[item] \in Range(groups[g.placements[item]])

\* the state updates of a handler followed by the completion effect, which
\* runs when submitted or isAllCorrect changed
Grouping_update(new) ==
    ExEffect(new, /\ (new.submitted # ex.submitted \/ isAllCorrect(new) # isAllCorrect(ex))
                  /\ new.submitted /\ isAllCorrect(new) /\ new.exerciseId # <<>>)

GroupingInit ==
    \E shuffled \in Shuffles(1..NumTokens) :
        LET RECURSIVE List(_)
            List(texts) == IF texts = <<>> THEN <<>>
                           ELSE <<34>> \o Head(texts) \o <<34>>
                                   \o (IF Len(texts) = 1 THEN <<>> ELSE <<44>>) \o List(Tail(texts))
            Group(g) == <<34, 71, 48 + g, 34, 58, 91>> \o List(groups[g]) \o <<93>>
        IN ExInit([component |-> "Grouping",
                   items |-> shuffled,
                   placements |-> <<>>,
                   submitted |-> FALSE,
                   showAnswers |-> FALSE,
                   selectedId |-> 0,
                   exerciseId |-> generateStableExerciseId(Pathname(1), "Grouping",
                                     <<123>> \o Group(1) \o <<44>> \o Group(2) \o <<125>>),
                   isCompleted |-> FALSE])

\* a render of the parent passes a fresh groups object with the same content:
\* the effects that depend on groups run again, the first shuffles the items
\* and the second reads the completion badge from the ledger
Grouping_rerender ==
    /\ ex.component = "Grouping"
    /\ \E shuffled \in Shuffles(1..NumTokens), readOk \in BOOLEAN :
          ExStep([ex EXCEPT !.items = shuffled,
                            !.isCompleted = isExerciseCompleted(localStorage, ex.exerciseId, readOk).value])

GroupingNext ==
    LET \* a drag of an enabled item ends over a group or over nothing (0)
        Grouping_handleDragEnd(active, over) ==
            /\ ~ex.submitted
            /\ Grouping_update([ex EXCEPT !.placements = IF over # 0 THEN ObjSet(@, active, over)
                                                         ELSE ObjDelete(@, active),
                                          !.selectedId = 0])

        \* a click on an item of the bank
        Grouping_handleItemClick(id) ==
            /\ ~ex.submitted /\ ~ex.showAnswers
            /\ id \notin DOMAIN ex.placements
            /\ Grouping_update([ex EXCEPT !.selectedId = IF @ = id THEN 0 ELSE id])

        \* a click on a group
        Grouping_handleGroupClick(groupId) ==
            /\ ~ex.submitted
            /\ ex.selectedId # 0
            /\ Grouping_update([ex EXCEPT !.placements = ObjSet(@, ex.selectedId, groupId),
                                          !.selectedId = 0])

        \* a click in the Move to menu of the selected bank item
        Grouping_handleMoveToGroup(itemId, groupId) ==
            /\ ~ex.submitted /\ ~ex.showAnswers
            /\ ex.selectedId = itemId
            /\ itemId \notin DOMAIN ex.placements
            /\ Grouping_update([ex EXCEPT !.placements = ObjSet(@, itemId, groupId), !.selectedId = 0])

        \* a click on an item inside a group
        Grouping_handleReturnToBank(itemId) ==
            /\ itemId \in DOMAIN ex.placements
            /\ Grouping_update([ex EXCEPT !.placements = ObjDelete(@, itemId), !.selectedId = 0])

        \* the Check button, disabled while an item is in the bank
        Grouping_checkAnswers ==
            /\ ~ex.submitted
            /\ DOMAIN ex.placements = Range(ex.items)
            /\ Grouping_update([ex EXCEPT !.submitted = TRUE, !.showAnswers = FALSE, !.selectedId = 0])

        \* the Try again button
        Grouping_reset ==
            /\ ex.submitted
            /\ \E shuffled \in Shuffles(1..NumTokens) :
                  Grouping_update([ex EXCEPT !.submitted = FALSE, !.showAnswers = FALSE,
                                             !.placements = <<>>, !.selectedId = 0,
                                             !.items = shuffled])

        \* the Show answers button: every item goes to the first group that lists its text
        Grouping_handleShowAnswers ==
            /\ ~ex.submitted \/ ~ex.showAnswers
            /\ Grouping_update([ex EXCEPT !.showAnswers = TRUE, !.submitted = TRUE, !.selectedId = 0,
                                          !.placements = [item \in Range(ex.items) |->
                                                             IF GroupingTexts[item] \in Range(groups[1])
                                                             THEN 1 ELSE 2]])
    IN
    \/ \E active \in 1..NumTokens, over \in 0..2 : Grouping_handleDragEnd(active, over)
    \/ \E id \in 1..NumTokens : Grouping_handleItemClick(id)
    \/ \E groupId \in 1..2 : Grouping_handleGroupClick(groupId)
    \/ \E itemId \in 1..NumTokens, groupId \in 1..2 : Grouping_handleMoveToGroup(itemId, groupId)
    \/ \E itemId \in 1..NumTokens : Grouping_handleReturnToBank(itemId)
    \/ Grouping_checkAnswers
    \/ Grouping_reset
    \/ Grouping_handleShowAnswers
    \/ Grouping_rerender

SpecGrouping == GroupingInit /\ [][GroupingNext]_vars

\* C17: the exercise is judged correct iff no item remains in the bank and
\* the text of every item is in the authored list of the group it is placed
\* in; completion is recorded (the ledger written, or the badge raised
\* without the ledger holding the exercise) only by a step that leaves the
\* exercise submitted with this predicate true.
C17_GroupingCorrectness ==
    [][LET Holds(g) == /\ \A item \in 1..NumTokens : item \in DOMAIN g.placements
                       /\ \A item \in DOMAIN g.placements :
                             GroupingTexts[item] \in Range(groups[g.placements[item]])
       IN /\ isAllCorrect(ex') <=> Holds(ex')
          /\ (\/ localStorage' # localStorage
               \/ /\ ex'.isCompleted /\ ~ex.isCompleted
                  /\ ~isExerciseCompleted(localStorage, ex.exerciseId, TRUE).value)
                => ex'.submitted /\ Holds(ex')]_vars

\* a checked arrangement is accepted and recorded with the item whose text
\* two groups list placed in the group it was not authored in
C17_Witness ==
    /\ ex.submitted
    /\ ~ex.showAnswers
    /\ isAllCorrect(ex)
    /\ ex.placements[NumTokens] = 1
    /\ ex.isCompleted
    /\ localStorage.has


(***************************************************************************)
(* ImageLabeling                                                           *)
(***************************************************************************)
\* a drag of a bank word, enabled when the word is in no slot, ends over a
\* slot, over another bank word (NumSlots + w) or over nothing (0); this one
\* leaves the word draggable while it is in a slot
Labeling_handleDragEnd_used(word, over) ==
    /\ ex.component = "ImageLabeling"
    /\ ExStep([ex EXCEPT !.slotValues = IF over \in 1..NumSlots THEN ObjSet(@, over, word) ELSE @])

\* handleDragEnd; the bank words are sortable items, disabled while used
Labeling_handleDragEnd(word, over) ==
    /\ ex.component = "ImageLabeling"
    /\ word \notin Range(ex.slotValues)
    /\ ExStep([ex EXCEPT !.slotValues = IF over \in 1..NumSlots THEN ObjSet(@, over, word) ELSE @])

\* the slots prop has NumSlots slots, slot i with the answer Word(i); the
\* words prop has the NumLabels words Word(1), Word(2), ...
LabelingInit ==
    LET RECURSIVE Answers(_)
        Answers(i) == <<34>> \o Word(i) \o <<34>>
                         \o (IF i = NumSlots THEN <<>> ELSE <<44>> \o Answers(i + 1))
    IN ExInit([component |-> "ImageLabeling",
               slotValues |-> <<>>,
               submitted |-> FALSE,
               showWordPicker |-> {},
               exerciseId |-> generateStableExerciseId(Pathname(1), "ImageLabeling",
                                 <<123, 34, 105, 109, 97, 103, 101, 34, 58, 34, 105, 34, 44,
                                   34, 115, 108, 111, 116, 115, 34, 58, 91>>
                                    \o Answers(1) \o <<93, 125>>),
               isCompleted |-> FALSE])

\* words.filter(w => !usedWords.has(w))
availableWords(l) == {w \in 1..NumLabels : w \notin {l.slotValues[slot] : slot \in DOMAIN l.slotValues}}

LabelingNext ==
    LET \* handleClick of a slot: the word picker of an empty slot is toggled,
        \* a filled slot is emptied (handleSlotClick)
        Labeling_handleClick(slotId) ==
            /\ ex.component = "ImageLabeling"
            /\ ExStep(IF ~ex.submitted /\ slotId \notin DOMAIN ex.slotValues /\ availableWords(ex) # {}
                      THEN [ex EXCEPT !.showWordPicker =
                                          IF slotId \in @ THEN @ \ {slotId} ELSE @ \cup {slotId}]
                      ELSE IF ~ex.submitted
                      THEN [ex EXCEPT !.slotValues = ObjDelete(@, slotId)]
                      ELSE ex)

        \* a word button of the open picker of a slot: handleSelectWord
        Labeling_handleSelectWord(slotId, word) ==
            /\ slotId \in ex.showWordPicker /\ ~ex.submitted
            /\ word \in availableWords(ex)
            /\ ExStep([ex EXCEPT !.slotValues = ObjSet(@, slotId, word),
                                 !.showWordPicker = @ \ {slotId}])

        \* the Check button, disabled until every slot is filled
        Labeling_checkAnswers ==
            /\ ~ex.submitted
            /\ DOMAIN ex.slotValues = 1..NumSlots
            /\ IF (\A slot \in 1..NumSlots : ex.slotValues[slot] = slot) /\ ex.exerciseId # <<>>
               THEN ExComplete([ex EXCEPT !.submitted = TRUE, !.isCompleted = TRUE])
               ELSE ExStep([ex EXCEPT !.submitted = TRUE])

        \* the Try again button
        Labeling_reset ==
            /\ ex.submitted
            /\ ExStep([ex EXCEPT !.submitted = FALSE, !.slotValues = <<>>])
    IN
    \/ \E word \in 1..NumLabels, over \in 0..(NumSlots + NumLabels) : Labeling_handleDragEnd(word, over)
    \/ \E slotId \in 1..NumSlots : Labeling_handleClick(slotId)
    \/ \E slotId \in 1..NumSlots, word \in 1..NumLabels : Labeling_handleSelectWord(slotId, word)
    \/ Labeling_checkAnswers
    \/ Labeling_reset

\* draggableItems.filter(item => !Object.values(matches).includes(item.id))
visibleDraggables(m) ==
    {m.draggableItems[i] : i \in {j \in DOMAIN m.draggableItems :
                                     m.draggableItems[j] \notin Range(m.matches)}}

\* a page with a Matching or with an ImageLabeling exercise
PlacementNext ==
    \/ ex.component = "Matching" /\ MatchingNext
    \/ ex.component = "ImageLabeling" /\ LabelingNext

SpecPlacement == (MatchingInit \/ LabelingInit) /\ [][PlacementNext]_vars

\* C33: no token is on two targets at once (a target holds one token by
\* construction of the mapping), and a token is listed in the bank iff it is
\* on no target: the visible draggables of Matching and the available words
\* of ImageLabeling are the tokens outside the range of the mapping.
C33_PlacementsInjective ==
    [][LET Placed(e) == IF e.component = "Matching" THEN e.matches ELSE e.slotValues
           Tokens == IF ex.component = "Matching" THEN 1..NumPairs ELSE 1..NumLabels
           Targets == IF ex.component = "Matching" THEN 1..NumPairs ELSE 1..NumSlots
           after == Placed(ex')
       IN /\ DOMAIN after \subseteq Targets
          /\ \A t \in DOMAIN after : after[t] \in Tokens
          /\ \A s, t \in DOMAIN after : after[s] = after[t] => s = t
          /\ \A token \in Tokens :
                (token \in IF ex.component = "Matching" THEN visibleDraggables(ex')
                           ELSE availableWords(ex'))
                    <=> \A t \in DOMAIN after : after[t] # token]_vars

\* every slot of the labeling is filled, the first with the last word of the
\* bank, and one word is left in the bank
C33_Witness ==
    /\ ex.component = "ImageLabeling"
    /\ DOMAIN ex.slotValues = 1..NumSlots
    /\ ex.slotValues[1] = NumLabels
    /\ Cardinality(availableWords(ex)) = NumLabels - NumSlots
    /\ ~ex.submitted

(***************************************************************************)
(* SpeakingChallenge                                                       *)
(***************************************************************************)
\* str.split(/\s+/)
RECURSIVE splitSpaces(_)
splitSpaces(str) ==
    LET IsSpace(c) == c \in {9, 10, 13, 32}
        spaces == {i \in DOMAIN str : IsSpace(str[i])}
    IN IF spaces = {} THEN <<str>>
       ELSE LET i == CHOOSE k \in spaces : \A l \in spaces : k <= l
                inked == {k \in (i + 1)..Len(str) : ~IsSpace(str[k])}
                j == IF inked = {} THEN Len(str) + 1
                     ELSE CHOOSE k \in inked : \A l \in inked : k <= l
            IN <<SubSeq(str, 1, i - 1)>> \o splitSpaces(SubSeq(str, j, Len(str)))

\* normalize of verifySpeech: lower case, punctuation removed, trimmed
normalize(str) ==
    LET NotPunctuation(c) ==
            c \notin {46, 44, 47, 35, 33, 36, 37, 94, 38, 42, 59, 58, 123, 125, 61, 45, 95, 96, 126, 40, 41}
    IN trim(SelectSeq(toLowerCase(str), NotPunctuation))

\* words.map(w => normalize(w))
targetWordsOf(text) == [i \in DOMAIN splitSpaces(text) |-> normalize(splitSpaces(text)[i])]

\* verifySpeech: the state left by its updates; matchPercentage >= 0.85 is
\* size / length >= 17 / 20
verifySpeech(s, spokenText) ==
    LET \* the matrix of levenshteinDistance, row by row; a row is kept as the tuple
        \* of its cells, cell j at position j + 1
        levenshteinDistance(a, b) ==
            LET RECURSIVE Row(_, _, _)
                Row(i, prev, acc) ==
                    IF Len(acc) = Len(a) + 1 THEN acc
                    ELSE LET j == Len(acc)
                         IN Row(i, prev, Append(acc, IF b[i] = a[j] THEN prev[j]
                                                     ELSE Min(prev[j] + 1, Min(acc[j] + 1, prev[j + 1] + 1))))
                RECURSIVE Rows(_, _)
                Rows(i, prev) == IF i > Len(b) THEN prev[Len(a) + 1] ELSE Rows(i + 1, Row(i, prev, <<i>>))
            IN IF a = <<>> THEN Len(b)
               ELSE IF b = <<>> THEN Len(a)
               ELSE Rows(1, [j \in 1..(Len(a) + 1) |-> j - 1])

        \* newMatchedIndices of verifySpeech (positions counted from 1) for the
        \* normalized target words and the spoken text
        matchWords(targetWords) ==
            LET raw == splitSpaces(spokenText)
                NotEmpty(w) == w # <<>>
                spokenWords == SelectSeq([i \in DOMAIN raw |-> normalize(raw[i])], NotEmpty)
                IsMatch(target, spoken) ==
                    \/ target = spoken
                    \/ Len(target) > 3 /\ Len(spoken) > 3 /\ levenshteinDistance(target, spoken) <= 1
                RECURSIVE Loop(_, _, _)
                Loop(tIndex, sIndex, matched) ==
                    IF tIndex > Len(targetWords) \/ sIndex > Len(spokenWords) THEN matched
                    ELSE IF IsMatch(targetWords[tIndex], spokenWords[sIndex])
                         THEN Loop(tIndex + 1, sIndex + 1, matched \cup {tIndex})
                         ELSE LET offsets == {offset \in 1..2 :
                                                 /\ sIndex + offset <= Len(spokenWords)
                                                 /\ IsMatch(targetWords[tIndex], spokenWords[sIndex + offset])}
                              IN IF offsets # {}
                                 THEN Loop(tIndex + 1,
                                           sIndex + 1 + CHOOSE o \in offsets : \A p \in offsets : o <= p,
                                           matched \cup {tIndex})
                                 ELSE Loop(tIndex + 1, sIndex, matched)
            IN Loop(1, 1, {})
    IN
    LET targetWords == targetWordsOf(s.text)
        newMatchedIndices == matchWords(targetWords)
        correct == 20 * Cardinality(newMatchedIndices) >= 17 * Len(targetWords)
    IN [s EXCEPT !.matchedIndices = newMatchedIndices,
                 !.status = IF correct THEN "correct" ELSE "recording",
                 !.recognition = IF correct THEN "stopping" ELSE @]

JoinWords(ws) ==
    LET RECURSIVE Join(_)
        Join(rest) == IF rest = <<>> THEN <<>>
                      ELSE IF Len(rest) = 1 THEN rest[1]
                      ELSE rest[1] \o <<32>> \o Join(Tail(rest))
        NotEmpty(w) == w # <<>>
    IN Join(SelectSeq(ws, NotEmpty))

\* what the recognizer reports for a text: the text itself, or its words in
\* lower case without punctuation, one of them possibly misheard in its last
\* letter, left out, or preceded by a filler
Transcripts(text) ==
    LET said == targetWordsOf(text)
        Defect(w, kind) ==
            CASE kind = "misheard" -> SubSeq(w, 1, Len(w) - 1) \o <<113>>
              [] kind = "omitted" -> <<>>
              [] kind = "filler" -> <<117, 104, 32>> \o w
              [] OTHER -> w
    IN {text} \cup
       {JoinWords([i \in DOMAIN said |-> IF i = d THEN Defect(said[i], kind) ELSE said[i]]) :
           d \in 0..Len(said), kind \in {"misheard", "omitted", "filler"}}

SpeechInit ==
    LET \* word i of the sentence: "Abcd," "bxy" "Cbcd," "dxy" ...
        SentenceWord(i) == IF i % 2 = 1 THEN <<64 + i, 98, 99, 100, 44>> ELSE <<96 + i, 120, 121>>

        \* the children: the first n words of the sentence, with or without a dash
        \* standing alone after the first word
        SpeechTexts ==
            {JoinWords(<<SentenceWord(1)>> \o dash \o [i \in 1..(n - 1) |-> SentenceWord(i + 1)]) :
                n \in 1..MaxWords, dash \in {<<>>, <<<<45>>>>}}
    IN
    \E text \in SpeechTexts :
        ExInit([component |-> "SpeakingChallenge",
                text |-> text,
                isRecording |-> FALSE,
                transcript |-> <<>>,
                status |-> "idle",
                error |-> "none",
                matchedIndices |-> {},
                recognition |-> "idle",
                exerciseId |-> generateStableExerciseId(Pathname(1), "SpeakingChallenge", text),
                isCompleted |-> FALSE])

\* the state updates of a callback followed by the completion effect, which
\* runs when status changed
Speech_update(new) ==
    ExEffect(new, new.status # ex.status /\ new.status = "correct" /\ new.exerciseId # <<>>)

\* a result event whose full transcript is currentFullTranscript
Speech_onresult(currentFullTranscript) ==
    /\ ex.recognition \in {"running", "stopping"}
    /\ Speech_update(verifySpeech([ex EXCEPT !.transcript = currentFullTranscript],
                                  currentFullTranscript))

SpeechNext ==
    LET \* the microphone button; start() on a session that is not idle throws
        Speech_toggleRecording ==
            /\ ex.component = "SpeakingChallenge"
            /\ Speech_update(IF ex.isRecording
                             THEN [ex EXCEPT !.recognition = IF @ \in {"starting", "running"} THEN "stopping" ELSE @]
                             ELSE [ex EXCEPT !.status = "idle", !.transcript = <<>>,
                                             !.recognition = IF @ = "idle" THEN "starting" ELSE @])

        Speech_onstart ==
            /\ ex.recognition = "starting"
            /\ Speech_update([ex EXCEPT !.recognition = "running",
                                        !.isRecording = TRUE,
                                        !.status = "recording",
                                        !.transcript = <<>>,
                                        !.matchedIndices = {},
                                        !.error = "none"])

        Speech_onerror(error) ==
            /\ ex.recognition \in {"starting", "running"}
            /\ Speech_update(
                  IF error = "no-speech" THEN [ex EXCEPT !.recognition = "stopping"]
                  ELSE IF error = "not-allowed"
                  THEN [ex EXCEPT !.recognition = "stopping", !.isRecording = FALSE, !.error = "denied"]
                  ELSE [ex EXCEPT !.recognition = "stopping", !.isRecording = FALSE, !.error = "other",
                                  !.status = "idle"])

        Speech_onend ==
            /\ ex.recognition \in {"running", "stopping"}
            /\ Speech_update([ex EXCEPT !.recognition = "idle", !.isRecording = FALSE])
    IN
    \/ Speech_toggleRecording
    \/ Speech_onstart
    \/ \E currentFullTranscript \in Transcripts(ex.text) : Speech_onresult(currentFullTranscript)
    \/ \E error \in {"no-speech", "not-allowed", "network"} : Speech_onerror(error)
    \/ Speech_onend

SpecSpeech == SpeechInit /\ [][SpeechNext]_vars

\* C18: a result leaves the status correct exactly when the matched target
\* words are at least 0.85 of the target words, and a transcript equal to the
\* target text after normalization is always accepted.
C18_VerifySpeechAcceptsTarget ==
    [][(\E t \in Transcripts(ex.text) : Speech_onresult(t)) =>
          /\ ex'.status = "correct"
                <=> 20 * Cardinality(ex'.matchedIndices) >= 17 * Len(targetWordsOf(ex.text))
          /\ normalize(ex'.transcript) = normalize(ex.text) => ex'.status = "correct"]_vars


(***************************************************************************)
(* Flashcards in speed mode (SpeedView)                                    *)
(***************************************************************************)
\* the items prop: card i has the word Word(i)
SpeedWords == [i \in 1..NumCards |-> Word(i)]

SpeedInit ==
    ExInit([component |-> "Flashcards",
            mode |-> "speed",
            currentIndex |-> 1,
            status |-> "listening",
            transcript |-> <<>>,
            showAnswer |-> FALSE,
            utterance |-> 1,
            sessions |-> <<>>,
            timers |-> 0,
            exerciseId |-> generateStableExerciseId(Pathname(1), "Flashcards", <<97>>),
            isCompleted |-> FALSE])

\* recognition.onresult of session i: setTranscript, and verify on a final
\* result, which ends a session that is not continuous; verify compares with
\* the word of the render that created the session and on a match starts the
\* timer of onNext
Speed_onresult(i, spoken, isFinal) ==
    /\ i \in DOMAIN ex.sessions
    /\ ex.sessions[i].state \in {"running", "stopping"}
    /\ LET s == ex.sessions[i]
           rest == IF isFinal THEN [j \in 1..(Len(ex.sessions) - 1) |->
                                       ex.sessions[IF j < i THEN j ELSE j + 1]]
                   ELSE ex.sessions
           matches == normalize(spoken) = normalize(SpeedWords[s.card])
       IN /\ isFinal /\ matches => ex.timers < MaxTimers
          /\ ExStep([ex EXCEPT !.sessions = rest,
                               !.transcript = IF s.orphan THEN @ ELSE spoken,
                               !.status = IF s.orphan \/ ~isFinal THEN @
                                          ELSE IF matches THEN "correct" ELSE "incorrect",
                               !.timers = IF isFinal /\ matches THEN @ + 1 ELSE @])

SpeedNext ==
    LET Remove(i) == [j \in 1..(Len(ex.sessions) - 1) |-> ex.sessions[IF j < i THEN j ELSE j + 1]]

        \* startRecognition() called by a render for the card `card`: a new
        \* session, which recognitionRef now holds.  A session records the card
        \* whose render created it and whether the view that created it is
        \* unmounted (its state setters do nothing)
        startRecognition(f, card) ==
            [f EXCEPT !.sessions = [i \in DOMAIN @ |-> [@[i] EXCEPT !.isRef = FALSE]]
                                      \o <<[state |-> "starting", card |-> card,
                                            isRef |-> TRUE, orphan |-> FALSE]>>]

        \* the cleanup of the speech effect followed by the effect itself, for
        \* the view of the card currentIndex: speechSynthesis.cancel(),
        \* recognitionRef.current.stop(), then the new utterance is spoken
        SpeedEffect(f, currentIndex) ==
            [f EXCEPT !.currentIndex = currentIndex,
                      !.sessions = [i \in DOMAIN @ |->
                                       IF @[i].isRef THEN [@[i] EXCEPT !.state = "stopping"] ELSE @[i]],
                      !.status = "listening", !.transcript = <<>>, !.showAnswer = FALSE,
                      !.utterance = currentIndex]

        \* the cleanup alone, when the view is unmounted
        SpeedCleanup(f) ==
            [f EXCEPT !.sessions = [i \in DOMAIN @ |->
                                       [@[i] EXCEPT !.state = IF f.sessions[i].isRef THEN "stopping" ELSE @,
                                                    !.orphan = TRUE]],
                      !.utterance = 0]

        \* handleNext of Flashcards, the onNext of the view
        Speed_handleNext(f) ==
            LET next == (f.currentIndex % NumCards) + 1
                moved == IF f.mode = "speed" THEN SpeedEffect(f, next)
                         ELSE [f EXCEPT !.currentIndex = next]
            IN IF next = 1
               THEN ExComplete([moved EXCEPT !.isCompleted = TRUE])
               ELSE ExStep(moved)

        \* utterance.onend: the translation was spoken to its end
        Speed_utterance_onend ==
            /\ ex.component = "Flashcards"
            /\ ex.utterance # 0
            /\ Len(ex.sessions) < MaxSessions
            /\ ExStep([startRecognition(ex, ex.utterance) EXCEPT !.utterance = 0])

        \* recognition.onstart
        Speed_onstart(i) ==
            /\ ex.sessions[i].state = "starting"
            /\ ExStep([ex EXCEPT !.sessions[i].state = "running",
                                 !.status = IF ex.sessions[i].orphan THEN @ ELSE "speaking"])

        \* recognition.onerror; the session ends
        Speed_onerror(i) ==
            /\ ex.sessions[i].state \in {"starting", "running"}
            /\ ExStep([ex EXCEPT !.sessions = Remove(i),
                                 !.status = IF ex.sessions[i].orphan THEN @ ELSE "incorrect"])

        \* the end of a session that was stopped and had nothing to report
        Speed_onend(i) ==
            /\ ex.sessions[i].state = "stopping"
            /\ ExStep([ex EXCEPT !.sessions = Remove(i)])

        \* the Try Again button
        Speed_tryAgain ==
            /\ ex.mode = "speed" /\ ex.status = "incorrect"
            /\ Len(ex.sessions) < MaxSessions
            /\ ExStep(startRecognition(ex, ex.currentIndex))

        \* the Show Answer button
        Speed_showAnswer ==
            /\ ex.mode = "speed" /\ ex.status = "incorrect"
            /\ ExStep([ex EXCEPT !.showAnswer = TRUE])

        \* setTimeout(onNext, 1500) fires
        Speed_timeout ==
            /\ ex.component = "Flashcards"
            /\ ex.timers > 0
            /\ Speed_handleNext([ex EXCEPT !.timers = @ - 1])

        \* handleModeChange: a mode button of Flashcards
        Speed_handleModeChange(newMode) ==
            /\ ex.component = "Flashcards"
            /\ ExStep(IF ex.mode = "speed" /\ newMode # "speed"
                      THEN [SpeedCleanup(ex) EXCEPT !.mode = newMode, !.currentIndex = 1]
                      ELSE IF newMode = "speed" /\ (ex.mode # "speed" \/ ex.currentIndex # 1)
                      THEN SpeedEffect([ex EXCEPT !.mode = newMode], 1)
                      ELSE [ex EXCEPT !.mode = newMode, !.currentIndex = 1])
    IN
    \/ Speed_utterance_onend
    \/ \E i \in DOMAIN ex.sessions : Speed_onstart(i)
    \/ \E i \in DOMAIN ex.sessions, spoken \in Range(SpeedWords) \cup {<<65, 46>>, <<122>>},
          isFinal \in BOOLEAN : Speed_onresult(i, spoken, isFinal)
    \/ \E i \in DOMAIN ex.sessions : Speed_onerror(i)
    \/ \E i \in DOMAIN ex.sessions : Speed_onend(i)
    \/ Speed_tryAgain
    \/ Speed_showAnswer
    \/ Speed_timeout
    \/ \E newMode \in {"flip", "speed"} : Speed_handleModeChange(newMode)

SpecSpeed == SpeedInit /\ [][SpeedNext]_vars

\* C31: at most one recognition session is in flight (a new one is started
\* only when every earlier one was stopped or has ended), and after the card
\* or the mode is switched the stopped session starts no timer and its
\* result callback leaves the status and the transcript of the view alone.
C31_OneSpeechSessionInFlight ==
    [][/\ Cardinality({i \in DOMAIN ex'.sessions : ex'.sessions[i].state # "stopping"}) <= 1
       /\ \A i \in DOMAIN ex.sessions, spoken \in Range(SpeedWords) \cup {<<65, 46>>, <<122>>},
             isFinal \in BOOLEAN :
              (/\ ex.sessions[i].state = "stopping"
               /\ Speed_onresult(i, spoken, isFinal))
                  => /\ ex'.status = ex.status
                     /\ ex'.transcript = ex.transcript
                     /\ ex'.timers = ex.timers]_vars

(***************************************************************************)
(* The blank parser of useBlanks on arbitrary texts                        *)
(***************************************************************************)
ParseInit ==
    LET \* the texts: up to MaxPieces pieces, each one of [ ] | a hint: and a line break
        ParseTexts ==
            LET pieces == {<<91>>, <<93>>, <<124>>, <<97>>, <<104, 105, 110, 116, 58>>, <<10>>}
                RECURSIVE Concat(_)
                Concat(ps) == IF ps = <<>> THEN <<>> ELSE Head(ps) \o Concat(Tail(ps))
            IN {Concat(ps) : ps \in UNION {[1..n -> pieces] : n \in 0..MaxPieces}}
    IN
    \E text \in ParseTexts :
        ExInit([component |-> "useBlanks", text |-> text, parsed |-> FALSE, blanksData |-> <<>>])

\* the useMemo of useBlanks runs
Parse_useMemo ==
    /\ ~ex.parsed
    /\ ExStep([ex EXCEPT !.parsed = TRUE, !.blanksData = blanksData(ex.text)])

SpecParse == ParseInit /\ [][Parse_useMemo]_vars

\* C19: the bracket tokens of the text, each from a '[' to the next ']',
\* give the blanks from left to right: the first '|' segment is the answer,
\* a 'hint:' segment sets the hint, the other segments are the local options
\* in order; a '[' with no ']' after it gives no blank and '[]' gives a blank
\* with the empty answer.
C19_ParserYieldsOneBlankPerToken ==
    LET RECURSIVE Tokens(_)
        Tokens(text) ==
            LET opens == {i \in DOMAIN text : text[i] = 91 /\ \E j \in (i + 1)..Len(text) : text[j] = 93}
            IN IF opens = {} THEN <<>>
               ELSE LET i == CHOOSE o \in opens : \A k \in opens : o <= k
                        j == CHOOSE c \in (i + 1)..Len(text) :
                                 text[c] = 93 /\ \A k \in (i + 1)..(c - 1) : text[k] # 93
                    IN <<SubSeq(text, i + 1, j - 1)>> \o Tokens(SubSeq(text, j + 1, Len(text)))
        IsHint(seg) == StartsWith(seg, <<104, 105, 110, 116, 58>>)
        IsOption(seg) == ~IsHint(seg)
        Blank(content) ==
            LET segs == split(content, 124)
                hints == SelectSeq(Tail(segs), IsHint)
            IN [answer |-> segs[1],
                localOptions |-> SelectSeq(Tail(segs), IsOption),
                hasHint |-> hints # <<>>,
                hint |-> IF hints = <<>> THEN <<>> ELSE Substring(hints[Len(hints)], 5)]
    IN ex.parsed => ex.blanksData = [i \in DOMAIN Tokens(ex.text) |-> Blank(Tokens(ex.text)[i])]



(***************************************************************************)
(* Exercise identity under different deployment base paths                 *)
(***************************************************************************)
\* the strings over "/" and "a" of at most n characters
PathStrings(n) == UNION {[1..k -> {47, 97}] : k \in 0..n}

\* values of import.meta.env.BASE_URL: unset, "/", "./", "a/", "/a", "/a/", "//"
BasePaths == {<<>>, <<47>>, <<46, 47>>, <<97, 47>>, <<47, 97>>, <<47, 97, 47>>, <<47, 47>>}

IdentityInit ==
    \E base \in BasePaths :
        ExInit([component |-> "exerciseId", base |-> base, lessonPath |-> <<>>,
                content |-> <<>>, cleanPath |-> <<>>, exerciseId |-> <<>>])

\* generateStableExerciseId(lessonPath, exerciseType, content) in the build
\* whose base path is ex.base
Identity_generateStableExerciseId(lessonPath, exerciseType, content) ==
    /\ ex.component = "exerciseId"
    /\ ExStep([ex EXCEPT !.lessonPath = lessonPath,
                         !.content = content,
                         !.cleanPath = normalizePathUnder(ex.base, lessonPath),
                         !.exerciseId = <<normalizePathUnder(ex.base, lessonPath), exerciseType,
                                          simpleHash(content)>>])

IdentityNext ==
    \E lessonPath \in PathStrings(MaxPathLen), exerciseType \in {"Quiz", "Matching"},
       content \in {<<>>, <<97>>} :
        Identity_generateStableExerciseId(lessonPath, exerciseType, content)

SpecIdentity == IdentityInit /\ [][IdentityNext]_vars

\* C30: for a base path B that starts and ends with "/" and a lesson-relative
\* path p (one that does not start with "/"), the exerciseId computed from the
\* location path B + p under base B is the one computed from "/" + p under
\* base "/", which is "/" + p with the type and the hash; when the base is
\* "/", unset or relative, or the path does not start with the base, the path
\* is returned unchanged.
C30_IdentityIndependentOfBasePath ==
    [][(ex' # ex /\ Identity_generateStableExerciseId(ex'.lessonPath, ex'.exerciseId[2], ex'.content)) =>
           LET B == ex.base
               lessonPath == ex'.lessonPath
               p == Substring(lessonPath, Len(B))
               underRoot == <<normalizePathUnder(<<47>>, <<47>> \o p), ex'.exerciseId[2],
                              simpleHash(ex'.content)>>
           IN /\ (/\ StartsWith(B, <<47>>) /\ B[Len(B)] = 47
                   /\ StartsWith(lessonPath, B)
                   /\ ~StartsWith(p, <<47>>))
                     => /\ ex'.exerciseId = underRoot
                        /\ underRoot[1] = <<47>> \o p
              /\ (B = <<47>> \/ ~StartsWith(B, <<47>>) \/ ~StartsWith(lessonPath, B))
                     => ex'.cleanPath = lessonPath /\ ex'.exerciseId[1] = lessonPath]_vars

\* the base path "/a/" was cut from the location path "/a/aa"
C30_Witness ==
    /\ ex.base = <<47, 97, 47>>
    /\ ex.lessonPath = <<47, 97, 47, 97, 97>>
    /\ ex.exerciseId[1] = <<47, 97, 97>>

====
